---- MODULE Spec2Model ----
(***************************************************************************)
(* A model of the MDCACHE stackable FSAL of nfs-ganesha                    *)
(* (src/FSAL/Stackable_FSALs/FSAL_MDCACHE/mdcache_helpers.c and            *)
(* mdcache_handle.c).  The module holds several state machines over one    *)
(* list of variables; each specification moves its own group of variables  *)
(* and leaves the others alone.                                            *)
(***************************************************************************)
EXTENDS Naturals, Integers, Sequences, FiniteSets, TLC

(* ------------------------------------------------------------------ *)
(* Bounds                                                              *)
(* ------------------------------------------------------------------ *)
NumThreads == 2
NumEntries == 2
\* Cache machine: keys, exports and the entries mdcache_lru_get can hand out.
NumKeys == 1
NumExports == 2
MaxAlloc == 2
\* The calls the threads start, all together.
MaxCalls == 3
\* Operations machine: the names a directory can hold and the operations
\* the threads start, all together.
NumNames == 1
\* The dirents the sub-FSAL lists for a directory, at most.
NumDirents == 3
MaxOps == 2
\* mdcache_param.dir.avl_max
AvlMax == 1
\* The cookies a sub-FSAL directory can hold, and mdcache_param.dir.avl_chunk.
MaxCookie == 4
AvlChunk == 2
\* The creates and unlinks between the readdirs of a run.
MaxMods == 3
\* The names and the child keys of the directory of the dirent round trip.
NumRtNames == 2
NumCKeys == 2
\* The cache entries one protocol-level handle gets over a run.
MaxPEntries == 3
\* The names of a directory, the calls of a run and the mtimes of the
\* machine of rename, unlink and the attribute refresh.
NumMuNames == 2
MaxMuOps == 3
MaxMtime == 2
\* The cookies and the chunk structs of the directory whose chunk
\* structure is followed dirent by dirent.
MaxCsCookie == 6
NumCsChunks == 4
\* The names of the directory whose detached list is followed, and the
\* largest avl_detached_max.
NumDtNames == 4
MaxDetachedMax == 3
NumMpThreads == 2
NumMpExports == 2
MaxMpMaps == 3
NumAtThreads == 2
MaxAtVer == 2
MaxWnDirents == 3
WnAvlChunk == 2
NumWnChunks == 4
NumCrNames == 2
MaxCrCalls == 3
NumPwThreads == 2
MaxGtVer == 2
MaxGtCalls == 3
NumLuThreads == 3
MaxLuEntries == 2

Min1(S) == CHOOSE x \in S : \A y \in S : x <= y
Threads == 1..NumThreads
\* An entry is named by its address: the code compares the pointers.
Entries == 1..NumEntries
Keys == 1..NumKeys
Exports == 1..NumExports
\* Cache entries are numbered from 1; 0 stands for the NULL pointer.
CEntries == 1..MaxAlloc
Names == 1..NumNames
\* What a sub-FSAL readdir can list: the first k names, in order.
Listings == {1..k : k \in 0..NumDirents}

VARIABLES
    content_lock,   \* entry -> [w: set holding the writer, r: set of readers]
    lk_pc,          \* thread -> position in mdcache_src_dest_lock/unlock
    lk_src,         \* thread -> the src argument
    lk_dest,        \* thread -> the dest argument
    mde,            \* cache entry -> its fields (mdcache_entry_t)
    cih,            \* the entries inserted in the hash table
    latch,          \* key -> the latch of the key's hash partition
    attr_lock,      \* cache entry -> its attr_lock
    exp_flags,      \* export -> TRUE when MDC_UNEXPORT is set
    exp_entry_list, \* export -> the entries on its entry_list
    mdc_exp_lock,   \* export -> its mdc_exp_lock
    th,             \* thread -> position and locals of the running call
    inserted,       \* history: key -> every entry ever inserted for it
    ncalls,         \* the calls started so far
    dir,            \* directory entry -> its cached dirents and flags
    ot,             \* thread -> position and locals of the running operation
    held,           \* thread -> the entry locks it holds, in acquisition order
    unlocked_mut,   \* history: a dirent set changed without its write lock
    chunking,       \* mdcache_param.dir.avl_chunk > 0
    nops,           \* the operations started so far
    fs,             \* the cookies of the dirents in the sub-FSAL directory
    cdir,           \* the chunked dirent cache of that directory
    rdc,            \* position and locals of the running chunked readdir
    stable,         \* history: cookies returned whose chunk is resident since
    nmods,          \* the creates and unlinks so far
    rt,             \* one directory's by-name index, its flags, the last lookup
    pl,             \* the entries of one parent handle and the calls on them
    mu,             \* two directories, two objects and the last call on them
    cs,             \* one directory: dirent->chunk, the chunks and their lists
    parts           \* the small machines, one field each: dt the detached list

sdlVars == <<lk_pc, lk_src, lk_dest>>
cacheOwn == <<mde, cih, latch, exp_flags, exp_entry_list, mdc_exp_lock, th,
              inserted, ncalls>>
opsOwn == <<dir, ot, held, unlocked_mut, chunking, nops>>
chunkOwn == <<fs, cdir, rdc, stable, nmods>>
extraOwn == <<rt, pl, mu, cs, parts>>
\* What each machine leaves alone.
notCache == <<content_lock, sdlVars, opsOwn, chunkOwn, extraOwn>>
notLock == <<attr_lock, cacheOwn, opsOwn, chunkOwn, extraOwn>>
notOps == <<sdlVars, cacheOwn, chunkOwn, extraOwn>>
notChunk == <<content_lock, attr_lock, sdlVars, cacheOwn, opsOwn,
             extraOwn>>
vars == <<content_lock, lk_pc, lk_src, lk_dest, mde, cih, latch, attr_lock,
          exp_flags, exp_entry_list, mdc_exp_lock, th, inserted, ncalls,
          dir, ot, held, unlocked_mut, chunking, nops, fs, cdir, rdc,
          stable, nmods, rt, pl, mu, cs,
          parts>>

(* ------------------------------------------------------------------ *)
(* pthread rwlocks                                                     *)
(* ------------------------------------------------------------------ *)
FreeLock == [w |-> {}, r |-> {}]
CanWrLock(l) == l.w = {} /\ l.r = {}
CanRdLock(l) == l.w = {}
WrLocked(l, t) == [l EXCEPT !.w = {t}]
RdLocked(l, t) == [l EXCEPT !.r = @ \cup {t}]
Unlocked(l, t) == [w |-> l.w \ {t}, r |-> l.r \ {t}]
HoldsWr(l, t) == t \in l.w
HoldsRd(l, t) == t \in l.r

(* ------------------------------------------------------------------ *)
(* Cache entries, the hash table and the export mapping                *)
(* ------------------------------------------------------------------ *)
\* A slot mdcache_lru_get has not handed out yet.
FreeEntry == [alloc |-> FALSE, key |-> 0, unreachable |-> FALSE,
              refcnt |-> 0, first_export_id |-> -1, export_list |-> <<>>,
              lru |-> "none"]
\* mdcache_lru_get then mdcache_alloc_handle's initialisation: one
\* reference for the caller and the sentinel one, no flags, no mapping.
NewEntryRec == [alloc |-> TRUE, key |-> 0, unreachable |-> FALSE,
              refcnt |-> 2, first_export_id |-> -1, export_list |-> <<>>,
              lru |-> "none"]
IdleThread == [pc |-> "idle", op |-> "none", key |-> 0, exp |-> 0,
               entry |-> 0, nentry |-> 0, status |-> "OK",
               cm_e |-> 0, ret |-> "none",
               cm_status |-> "OK",
               g_pre |-> "none", g_re |-> "none", g_added |-> FALSE,
               g_during |-> FALSE, g_inhash |-> FALSE,
               g_unreach |-> FALSE, g_lost |-> FALSE]

InitCacheIdle ==
    /\ mde = [e \in CEntries |-> FreeEntry]
    /\ cih = {}
    /\ latch = [k \in Keys |-> FreeLock]
    /\ exp_flags = [x \in Exports |-> FALSE]
    /\ exp_entry_list = [x \in Exports |-> <<>>]
    /\ mdc_exp_lock = [x \in Exports |-> FreeLock]
    /\ th = [t \in Threads |-> IdleThread]
    /\ inserted = [k \in Keys |-> {}]
    /\ ncalls = 0

\* cih_get_by_key_latch's lookup: the inserted entry with this key, or NULL.
CihLookup(k) ==
    IF \E e \in cih : mde[e].key = k
    THEN CHOOSE e \in cih : mde[e].key = k
    ELSE 0

\* mdcache_lru_ref(entry, LRU_REQ_INITIAL): rejected when the entry has
\* become unreachable.
LruRefInitialOk(e) == ~mde[e].unreachable

\* What a flag test in mdc_check_mapping makes of the flags byte it read.
UnexportSeenAlt(flag) == FALSE
UnexportSeen(flag) == flag

GhostFlag(flag) == IF flag THEN "set" ELSE "clear"

\* mdc_check_mapping returns to its caller.
CmReturn(t, st) ==
    th' = [th EXCEPT ![t].cm_status = st, ![t].pc = th[t].ret]

InSeq(x, sq) == \E i \in 1..Len(sq) : sq[i] = x

\* mdc_check_mapping: the pre-check of MDC_UNEXPORT.
CmPre(t) ==
    /\ th[t].pc = "cm_pre"
    /\ LET f == exp_flags[th[t].exp] IN
        IF UnexportSeen(f)
        THEN th' = [th EXCEPT ![t].cm_status = "STALE", ![t].pc = th[t].ret,
                               ![t].g_pre = GhostFlag(f)]
        ELSE th' = [th EXCEPT ![t].pc = "cm_fast", ![t].g_pre = GhostFlag(f)]
    /\ UNCHANGED <<mde, cih, latch, attr_lock, exp_flags, exp_entry_list,
                   mdc_exp_lock, inserted, ncalls>>
    /\ UNCHANGED notCache

\* mdc_check_mapping: the fast path on first_export_id.
CmFast(t) ==
    /\ th[t].pc = "cm_fast"
    /\ IF mde[th[t].cm_e].first_export_id = th[t].exp
       THEN CmReturn(t, "OK")
       ELSE th' = [th EXCEPT ![t].pc = "cm_rdlock"]
    /\ UNCHANGED <<mde, cih, latch, attr_lock, exp_flags, exp_entry_list,
                   mdc_exp_lock, inserted, ncalls>>
    /\ UNCHANGED notCache

\* PTHREAD_RWLOCK_rdlock(&entry->attr_lock) and the first scan of
\* entry->export_list; the read lock is dropped either way.
CmRdlock(t) ==
    /\ th[t].pc = "cm_rdlock"
    /\ CanRdLock(attr_lock[th[t].cm_e])
    /\ IF InSeq(th[t].exp, mde[th[t].cm_e].export_list)
       THEN CmReturn(t, "OK")
       ELSE th' = [th EXCEPT ![t].pc = "cm_wrlock"]
    /\ UNCHANGED <<mde, cih, latch, attr_lock, exp_flags, exp_entry_list,
                   mdc_exp_lock, inserted, ncalls>>
    /\ UNCHANGED notCache

\* PTHREAD_RWLOCK_wrlock(&entry->attr_lock); try_write = true; goto again:
\* the second scan, under the write lock, which stays held on a miss.
CmWrlock(t) ==
    /\ th[t].pc = "cm_wrlock"
    /\ CanWrLock(attr_lock[th[t].cm_e])
    /\ IF InSeq(th[t].exp, mde[th[t].cm_e].export_list)
       THEN /\ CmReturn(t, "OK")
            /\ UNCHANGED attr_lock
       ELSE /\ attr_lock' = [attr_lock EXCEPT ![th[t].cm_e] = WrLocked(@, t)]
            /\ th' = [th EXCEPT ![t].pc = "cm_explock"]
    /\ UNCHANGED <<mde, cih, latch, exp_flags, exp_entry_list,
                   mdc_exp_lock, inserted, ncalls>>
    /\ UNCHANGED notCache

\* PTHREAD_RWLOCK_wrlock(&export->mdc_exp_lock), the re-check of
\* MDC_UNEXPORT and, when it is clear, the new record on both lists
\* (first_export_id is stored when the entry's list was empty); both locks
\* are released before returning.
CmExplock(t) ==
    /\ th[t].pc = "cm_explock"
    /\ CanWrLock(mdc_exp_lock[th[t].exp])
    /\ LET e == th[t].cm_e  x == th[t].exp  f == exp_flags[th[t].exp] IN
        /\ attr_lock' = [attr_lock EXCEPT ![e] = Unlocked(@, t)]
        /\ IF UnexportSeen(f)
           THEN /\ th' = [th EXCEPT ![t].cm_status = "STALE",
                                    ![t].pc = th[t].ret,
                                    ![t].g_re = GhostFlag(f)]
                /\ UNCHANGED <<mde, exp_entry_list>>
           ELSE /\ mde' = [mde EXCEPT
                        ![e].first_export_id =
                            IF mde[e].export_list = <<>> THEN x ELSE @,
                        ![e].export_list = Append(@, x)]
                /\ exp_entry_list' = [exp_entry_list EXCEPT
                                        ![x] = Append(@, e)]
                /\ th' = [th EXCEPT ![t].cm_status = "OK",
                                    ![t].pc = th[t].ret,
                                    ![t].g_re = GhostFlag(f),
                                    ![t].g_added = TRUE]
    /\ UNCHANGED <<cih, latch, exp_flags, mdc_exp_lock, inserted, ncalls>>
    /\ UNCHANGED notCache

CheckMapping(t) ==
    \/ CmPre(t) \/ CmFast(t) \/ CmRdlock(t) \/ CmWrlock(t) \/ CmExplock(t)

\* An entry whose last reference is gone: its memory is back in the pool.
FreedEntry == [alloc |-> TRUE, key |-> 0, unreachable |-> FALSE,
              refcnt |-> 0, first_export_id |-> -1, export_list |-> <<>>,
              lru |-> "freed"]

\* mdcache_put: drop one reference; the last one frees the entry.
MdcachePut(m, e) ==
    IF m[e].refcnt = 1 THEN [m EXCEPT ![e] = FreedEntry]
    ELSE [m EXCEPT ![e].refcnt = @ - 1]

\* _mdcache_kill_entry: cih_remove_checked removes the entry if it is still
\* inserted, dropping the sentinel reference; an entry that was not freed
\* by that is pushed on the cleanup queue.
KillEntry(m, e) ==
    IF e \in cih
    THEN IF m[e].refcnt = 1 THEN [m EXCEPT ![e] = FreedEntry]
         ELSE [m EXCEPT ![e].refcnt = @ - 1, ![e].lru = "cleanup"]
    ELSE [m EXCEPT ![e].lru = "cleanup"]
\* cih_remove_checked takes the partition's latch itself.
KillLatchFree(e) == e \in cih => CanWrLock(latch[mde[e].key])

\* The caller sets op_ctx and the key and enters mdcache_new_entry ("ne")
\* or mdcache_find_keyed ("fk"); both start with the keyed lookup.
Call(t) ==
    /\ th[t].pc \in {"idle", "done"}
    /\ ncalls < MaxCalls
    /\ ncalls' = ncalls + 1
    /\ \E k \in Keys, x \in Exports, o \in {"ne", "fk"} :
        th' = [th EXCEPT ![t] = [IdleThread EXCEPT !.pc = "fk_latch",
                                    !.op = o, !.key = k, !.exp = x]]
    /\ UNCHANGED <<mde, cih, latch, attr_lock, exp_flags, exp_entry_list,
                   mdc_exp_lock, inserted>>
    /\ UNCHANGED notCache

\* What mdcache_find_keyed does with the status of the initial reference.
FkRefStatusAlt(ok) == "OK"
FkRefStatus(ok) == IF ok THEN "OK" ELSE "STALE"

\* mdcache_find_keyed: cih_get_by_key_latch(RLOCK | UNLOCK_ON_MISS), the
\* initial reference and cih_hash_release, all under the read latch.
FkLatch(t) ==
    /\ th[t].pc = "fk_latch"
    /\ CanRdLock(latch[th[t].key])
    /\ LET e == CihLookup(th[t].key) IN
        IF e = 0
        THEN /\ th' = [th EXCEPT ![t].status = "NOENT", ![t].entry = 0,
                                 ![t].pc = "fk_ret"]
             /\ UNCHANGED mde
        ELSE LET st == FkRefStatus(LruRefInitialOk(e)) IN
             IF st # "OK"
             THEN /\ th' = [th EXCEPT ![t].status = st, ![t].entry = 0,
                                 ![t].pc = "fk_ret", ![t].g_inhash = TRUE,
                                 ![t].g_unreach = mde[e].unreachable]
                  /\ UNCHANGED mde
             ELSE /\ th' = [th EXCEPT ![t].entry = e, ![t].cm_e = e,
                                 ![t].ret = "fk_cm_ret", ![t].pc = "cm_pre",
                                 ![t].g_inhash = TRUE,
                                 ![t].g_unreach = mde[e].unreachable]
                  /\ mde' = [mde EXCEPT ![e].refcnt = @ + 1]
    /\ UNCHANGED <<cih, latch, attr_lock, exp_flags, exp_entry_list,
                   mdc_exp_lock, inserted, ncalls>>
    /\ UNCHANGED notCache

\* mdcache_find_keyed after mdc_check_mapping: an error drops the
\* reference and returns no entry.
FkCmRet(t) ==
    /\ th[t].pc = "fk_cm_ret"
    /\ IF th[t].cm_status # "OK"
       THEN /\ mde' = MdcachePut(mde, th[t].entry)
            /\ th' = [th EXCEPT ![t].status = th[t].cm_status,
                                ![t].entry = 0, ![t].pc = "fk_ret"]
       ELSE /\ UNCHANGED mde
            /\ th' = [th EXCEPT ![t].status = "OK", ![t].pc = "fk_ret"]
    /\ UNCHANGED <<cih, latch, attr_lock, exp_flags, exp_entry_list,
                   mdc_exp_lock, inserted, ncalls>>
    /\ UNCHANGED notCache

\* mdcache_find_keyed has returned.  A plain lookup ends here; in
\* mdcache_new_entry a hit clears MDCACHE_UNREACHABLE and is returned, an
\* error other than NOENT is returned, NOENT goes on to allocate.
FkRet(t) ==
    /\ th[t].pc = "fk_ret"
    /\ IF th[t].op = "ne" /\ th[t].status = "OK"
       THEN mde' = [mde EXCEPT ![th[t].entry].unreachable = FALSE]
       ELSE UNCHANGED mde
    /\ th' = [th EXCEPT ![t].pc =
                IF th[t].op = "ne" /\ th[t].status = "NOENT" THEN "ne_alloc"
                ELSE IF th[t].status = "OK" THEN "hold" ELSE "done"]
    /\ UNCHANGED <<cih, latch, attr_lock, exp_flags, exp_entry_list,
                   mdc_exp_lock, inserted, ncalls>>
    /\ UNCHANGED notCache

\* mdcache_alloc_handle: mdcache_lru_get and the common fields, then
\* mdc_check_mapping on the fresh entry.
NeAlloc(t) ==
    /\ th[t].pc = "ne_alloc"
    /\ \E n \in CEntries :
        /\ ~mde[n].alloc
        /\ \A o \in CEntries : o < n => mde[o].alloc
        /\ mde' = [mde EXCEPT ![n] = NewEntryRec]
        /\ th' = [th EXCEPT ![t].nentry = n, ![t].cm_e = n,
                            ![t].ret = "ah_cm_ret", ![t].pc = "cm_pre"]
    /\ UNCHANGED <<cih, latch, attr_lock, exp_flags, exp_entry_list,
                   mdc_exp_lock, inserted, ncalls>>
    /\ UNCHANGED notCache

\* mdcache_alloc_handle after mdc_check_mapping: on error put and kill the
\* fresh entry and return NULL (new_entry then returns STALE); otherwise
\* mdcache_lru_insert queues it.
AhCmRet(t) ==
    /\ th[t].pc = "ah_cm_ret"
    /\ LET n == th[t].nentry IN
        IF th[t].cm_status # "OK"
        THEN /\ mde' = KillEntry(MdcachePut(mde, n), n)
             /\ th' = [th EXCEPT ![t].status = "STALE", ![t].nentry = 0,
                                 ![t].pc = "done"]
        ELSE /\ mde' = [mde EXCEPT ![n].lru = "queued"]
             /\ th' = [th EXCEPT ![t].pc = "ne_race"]
    /\ UNCHANGED <<cih, latch, attr_lock, exp_flags, exp_entry_list,
                   mdc_exp_lock, inserted, ncalls>>
    /\ UNCHANGED notCache

\* What the race check makes of cih_get_by_key_latch's result.
RaceCheckAlt(oentry) == 0
RaceCheck(oentry) == oentry

\* "See if someone raced us": cih_get_by_key_latch(WLOCK).  A found entry
\* is referenced, MDCACHE_UNREACHABLE is cleared on it and the latch is
\* released; otherwise the write latch stays held.
NeRace(t) ==
    /\ th[t].pc = "ne_race"
    /\ CanWrLock(latch[th[t].key])
    /\ LET o == RaceCheck(CihLookup(th[t].key)) IN
        IF o # 0
        THEN /\ mde' = [mde EXCEPT
                    ![o].refcnt = IF LruRefInitialOk(o) THEN @ + 1 ELSE @,
                    ![o].unreachable = FALSE]
             /\ th' = [th EXCEPT ![t].entry = o,
                    ![t].status = IF LruRefInitialOk(o) THEN "OK" ELSE "STALE",
                    ![t].g_lost = TRUE, ![t].pc = "ne_release"]
             /\ UNCHANGED latch
        ELSE /\ latch' = [latch EXCEPT ![th[t].key] = WrLocked(@, t)]
             /\ th' = [th EXCEPT ![t].pc = "ne_set"]
             /\ UNCHANGED mde
    /\ UNCHANGED <<cih, attr_lock, exp_flags, exp_entry_list,
                   mdc_exp_lock, inserted, ncalls>>
    /\ UNCHANGED notCache

\* "We won the race": cih_hash_key and cih_set_latched(UNLOCK | HASHED).
\* Either can fail for lack of memory, which releases the latch and goes to
\* out_release_new_entry with NOMEM.
NeSet(t) ==
    /\ th[t].pc = "ne_set"
    /\ LET n == th[t].nentry  k == th[t].key IN
        /\ latch' = [latch EXCEPT ![k] = Unlocked(@, t)]
        /\ \/ /\ mde' = [mde EXCEPT ![n].key = k]
              /\ cih' = cih \cup {n}
              /\ inserted' = [inserted EXCEPT ![k] = @ \cup {n}]
              /\ th' = [th EXCEPT ![t].entry = n, ![t].status = "OK",
                                  ![t].pc = "hold"]
           \/ /\ th' = [th EXCEPT ![t].status = "NOMEM",
                                  ![t].pc = "ne_release"]
              /\ UNCHANGED <<mde, cih, inserted>>
    /\ UNCHANGED <<attr_lock, exp_flags, exp_entry_list, mdc_exp_lock, ncalls>>
    /\ UNCHANGED notCache

\* out_release_new_entry: mdcache_put(nentry); mdcache_kill_entry(nentry),
\* then the status is returned.
NeRelease(t) ==
    /\ th[t].pc = "ne_release"
    /\ LET n == th[t].nentry IN
        /\ KillLatchFree(n)
        /\ mde' = KillEntry(MdcachePut(mde, n), n)
        /\ cih' = cih \ {n}
    /\ th' = [th EXCEPT ![t].pc = IF th[t].status = "OK" THEN "hold"
                                   ELSE "done"]
    /\ UNCHANGED <<latch, attr_lock, exp_flags, exp_entry_list,
                   mdc_exp_lock, inserted, ncalls>>
    /\ UNCHANGED notCache

\* The caller of a successful call drops its reference (mdcache_put).
HoldPut(t) ==
    /\ th[t].pc = "hold"
    /\ mde' = MdcachePut(mde, th[t].entry)
    /\ th' = [th EXCEPT ![t] = IdleThread]
    /\ UNCHANGED <<cih, latch, attr_lock, exp_flags, exp_entry_list,
                   mdc_exp_lock, inserted, ncalls>>
    /\ UNCHANGED notCache

\* mdcache_unlink (or a key-changing rename) calls mdc_unreachable on the
\* entry it holds, then its caller drops the reference.
HoldUnreachable(t) ==
    /\ th[t].pc = "hold"
    /\ mde' = MdcachePut([mde EXCEPT ![th[t].entry].unreachable = TRUE],
                         th[t].entry)
    /\ th' = [th EXCEPT ![t] = IdleThread]
    /\ UNCHANGED <<cih, latch, attr_lock, exp_flags, exp_entry_list,
                   mdc_exp_lock, inserted, ncalls>>
    /\ UNCHANGED notCache

\* mdcache_kill_entry on the entry held (the sub-FSAL said STALE), then the
\* caller drops the reference.
HoldKill(t) ==
    /\ th[t].pc = "hold"
    /\ LET e == th[t].entry IN
        /\ KillLatchFree(e)
        /\ mde' = MdcachePut(KillEntry(mde, e), e)
        /\ cih' = cih \ {e}
    /\ th' = [th EXCEPT ![t] = IdleThread]
    /\ UNCHANGED <<latch, attr_lock, exp_flags, exp_entry_list,
                   mdc_exp_lock, inserted, ncalls>>
    /\ UNCHANGED notCache

\* Unexport begins: MDC_UNEXPORT is set on the export with an atomic store.
\* The calls then running for this export are remembered.
Unexport(x) ==
    /\ ~exp_flags[x]
    /\ exp_flags' = [exp_flags EXCEPT ![x] = TRUE]
    /\ th' = [t \in Threads |->
                IF th[t].exp = x /\ th[t].pc \notin {"idle", "hold", "done"}
                THEN [th[t] EXCEPT !.g_during = TRUE] ELSE th[t]]
    /\ UNCHANGED <<mde, cih, latch, attr_lock, exp_entry_list,
                   mdc_exp_lock, inserted, ncalls>>
    /\ UNCHANGED notCache

\* A directory entry as mdcache_new_entry leaves it: no dirents, content
\* trusted.  names is the by-name index, deleted the dirents a chunk keeps
\* marked DIR_ENTRY_FLAG_DELETED; first_export tells whether
\* first_export_id is the current export.
NewDir == [names |-> {}, deleted |-> {}, trust_content |-> TRUE,
           populated |-> FALSE, trust_chunks |-> FALSE, bypass |-> FALSE,
           first_export |-> TRUE]
IdleOp == [pc |-> "idle", op |-> "none", d |-> 0, d2 |-> 0, n |-> 0,
           n2 |-> 0, child |-> 0, has_write |-> FALSE, todo |-> {},
           ret |-> "none", ret2 |-> "none", st |-> "OK"]

\* A sub-FSAL names a dirent by its cookie; 0 is no cookie and no chunk.
Cookies == 1..MaxCookie
ChunkIds == 1..(MaxCookie + 1)
AvlChunkSplit == 2 * AvlChunk

\* A struct dir_chunk that is not allocated.
NoChunk == [used |-> FALSE, dirents |-> <<>>, next_ck |-> 0, prev_chunk |-> 0]

\* The dirent cache of a directory entry as mdcache_new_entry leaves it.
NewChunkDir ==
    [chunks |-> [i \in ChunkIds |-> NoChunk], detached |-> {},
     deleted |-> {}, eod |-> {}, trust_content |-> TRUE,
     populated |-> FALSE, trust_chunks |-> FALSE, first_ck |-> 0,
     fso_cookie |-> TRUE]

IdleRdc ==
    [pc |-> "idle", whence |-> 0, look_ck |-> 0, next_ck |-> 0, chunk |-> 0,
     dirent |-> 0, has_write |-> FALSE, set_first_ck |-> FALSE,
     first_chunk |-> 0, cur |-> 0, pos |-> 0,
     eod |-> FALSE, cb_result |-> "DIR_CONTINUE", out |-> <<>>,
     eod_met |-> FALSE, status |-> "none"]

\* The status mdcache_readdir_chunked returns when neither the sub-FSAL
\* nor a lookup failed: that of mdcache_populate_dir_chunk or of the
\* last mdcache_find_keyed and getattrs, ERR_FSAL_NO_ERROR.
RdcStatus(r, out) == "OK"

\* What is left of a call that returned: its argument and what the caller
\* got from it.
RdcReturn(r, cb_result, out, eod_met) ==
    [IdleRdc EXCEPT !.pc = "done", !.whence = r.whence,
                    !.cb_result = cb_result, !.out = out,
                    !.eod_met = eod_met, !.status = RdcStatus(r, out)]

\* The chunk machine before any call.
InitChunkIdle ==
    /\ fs = {}
    /\ cdir = NewChunkDir
    /\ rdc = IdleRdc
    /\ stable = {}
    /\ nmods = 0

\* The directory of the dirent round trip as mdcache_new_entry leaves it.
\* tree is the by-name index (name -> child key, 0 for no dirent), cached
\* the child keys mdcache_find_keyed finds, neg_opt the export option
\* EXPORT_OPTION_TRUST_READIR_NEGATIVE_CACHE; ins and rem are history: the
\* key a name's dirent was inserted with, and whether the last change of a
\* name was the removal of its dirent.
RtNames == 1..NumRtNames
CKeys == 1..NumCKeys
NoLookup == [op |-> "none", n |-> 0, status |-> "none", key |-> 0]
IdleRt == [tree |-> [n \in RtNames |-> 0], bypass |-> FALSE,
           trust_content |-> TRUE, populated |-> FALSE, neg_opt |-> FALSE,
           icreate_refcnt |-> 0, cached |-> {},
           ins |-> [n \in RtNames |-> 0], rem |-> [n \in RtNames |-> FALSE],
           last |-> NoLookup]

\* The parent P of the STALE handling: hash is the entry the hash table
\* holds for P's key (0 for none), nalloc the entries made for it so far,
\* lock their content locks, t the calls of the threads.
PEntries == 1..MaxPEntries
IdlePlThread == [pc |-> "idle", op |-> "none", e |-> 0, sub |-> "none",
                 st |-> "none", has_write |-> FALSE]
IdlePl == [hash |-> 0, nalloc |-> 0,
           lock |-> [e \in PEntries |-> FreeLock],
           t |-> [t \in Threads |-> IdlePlThread]]

\* The entries of rename, unlink and refresh: 1 and 2 are directories, 3 is
\* the object of the calls (a file or a directory), 4 another object that
\* a destination name can stand for.  tree is the by-name index (name ->
\* entry, 0 for no dirent), deleted the dirents a chunk keeps marked
\* DIR_ENTRY_FLAG_DELETED, parent the directory of the cached parent handle
\* (0 for an empty one), hashed whether the hash table holds the entry,
\* wlock whether its content lock is held for write.
MuNames == 1..NumMuNames
MuDirs == {1, 2}
MuObj == Cardinality(MuDirs) + 1
MuOther == MuObj + 1
MuEnts == 1..MuOther
NewMuEntry(type) ==
    [type |-> type, tree |-> [n \in MuNames |-> 0], deleted |-> {},
     trust_attrs |-> TRUE, trust_content |-> TRUE, populated |-> FALSE,
     trust_chunks |-> FALSE, bypass |-> FALSE, unreachable |-> FALSE,
     parent |-> 0, mtime |-> 1, junction |-> FALSE, hashed |-> TRUE,
     wlock |-> FALSE]
NoMuCall == [op |-> "none", status |-> "none", sub |-> "none", obj |-> 0,
             d |-> 0, n |-> 0, d2 |-> 0, n2 |-> 0, changes_key |-> FALSE,
             invalidate |-> FALSE, dst |-> 0, locked |-> FALSE]
MuEntries(objtype) ==
    [e \in MuEnts |-> IF e \in MuDirs THEN NewMuEntry("DIRECTORY")
                      ELSE IF e = MuObj THEN NewMuEntry(objtype)
                      ELSE NewMuEntry("REGULAR_FILE")]
IdleMu == [ent |-> MuEntries("REGULAR_FILE"),
           pre |-> MuEntries("REGULAR_FILE"),
           last |-> NoMuCall, chunking |-> FALSE, pc |-> "idle", nops |-> 0]

CsCookies == 1..MaxCsCookie
CsChunkIds == 1..NumCsChunks

\* A struct dir_chunk that is not in use. listed: the chunk is on the
\* directory's list of chunks (fsobj.fsdir.chunks).
CsNoChunk == [used |-> FALSE, listed |-> FALSE, dirents |-> <<>>,
              num_entries |-> 0, next_ck |-> 0, prev_chunk |-> 0]

\* History: what the last call of place_new_dirent did at its split.
CsNoLast == [op |-> "none", chunk |-> 0, split |-> 0, next_ck |-> 0,
             dirents |-> <<>>]

\* The directory before anything is cached. fs: the cookies of the
\* sub-FSAL's dirents; tree: the by-name index; chunk: dirent->chunk, 0
\* for NULL; detached: the detached list; eod: the dirents flagged eod;
\* first_by is history: what wrote first_ck last; placed is history:
\* where the last call of place_new_dirent linked its dirent.
IdleCs == [avl_chunk |-> AvlChunk, avl_chunk_split |-> 2 * AvlChunk,
           fs |-> {}, tree |-> {}, chunk |-> [k \in CsCookies |-> 0],
           chunks |-> [i \in CsChunkIds |-> CsNoChunk], detached |-> {},
           eod |-> {}, first_ck |-> 0, aborted |-> FALSE, pc |-> "idle",
           cur |-> 0, first_chunk |-> 0, pos |-> 0, eod_met |-> FALSE,
           set_first_ck |-> FALSE, result |-> "DIR_CONTINUE",
           last |-> CsNoLast, first_by |-> "none", placed |-> "none"]

\* The names of the directory whose detached list is followed and the
\* values of avl_detached_max.
DtNames == 1..NumDtNames
DtMaxes == 1..MaxDetachedMax

\* History: what the last call on the detached list was given and found.
NoDtCall == [op |-> "none", n |-> 0, detached |-> <<>>, tree |-> {}]

\* The directory before a dirent is cached. tree: the by-name index;
\* detached: fsdir.detached from the head (MRU) to the tail (LRU).
IdleDt == [avl_detached_max |-> 1, tree |-> {}, detached |-> <<>>,
           detached_count |-> 0, last |-> NoDtCall]

\* The export mapping of one entry: the threads of mdc_check_mapping and
\* mdc_clean_entry, the exports, the entry_export_map records.
MpThreads == 1..NumMpThreads
MpExports == 1..NumMpExports
MpIds == 1..MaxMpMaps

MpIdleThread == [pc |-> "idle", exp |-> 0, try_write |-> FALSE, id |-> 0,
                 status |-> "none", added |-> FALSE, mapped |-> FALSE,
                 fast |-> FALSE]

\* attr is the entry's attr_lock, exp_lock[x] the holder of the export's
\* mdc_exp_lock, unexport[x] the export's MDC_UNEXPORT flag, expmap[id]
\* the export of the allocated record id (0 when it is free), export_list
\* the entry's list of records and entry_list[x] the export's.
IdleMp == [th |-> [t \in MpThreads |-> MpIdleThread],
           attr |-> [readers |-> {}, writer |-> 0],
           exp_lock |-> [x \in MpExports |-> 0],
           unexport |-> [x \in MpExports |-> FALSE],
           first_export_id |-> -1,
           expmap |-> [i \in MpIds |-> 0],
           export_list |-> <<>>,
           entry_list |-> [x \in MpExports |-> <<>>]]

\* The cached attributes of one published entry: two of the struct's
\* fields, owner and mode, which the sub-FSAL always reports with the
\* same value (the version of the object's attributes).
AtThreads == 1..NumAtThreads
AtVers == 0..MaxAtVer
AtNoAttrs == [owner |-> -1, mode |-> -1]

AtIdleThread == [pc |-> "idle", op |-> "none", local |-> 0,
                 out |-> AtNoAttrs, seen |-> AtNoAttrs,
                 error |-> FALSE, handed |-> FALSE]

\* attrs is entry->attrs, valid what mdcache_is_attrs_valid answers,
\* lock the entry's attr_lock, fsattr the attributes in the sub-FSAL.
IdleAt == [th |-> [t \in AtThreads |-> AtIdleThread],
           attrs |-> [owner |-> 0, mode |-> 0],
           valid |-> TRUE,
           lock |-> [readers |-> {}, writer |-> 0],
           fsattr |-> 0]

\* mdcache_populate_dir_chunk on one directory: the sub-FSAL lists the
\* dirents 1..n in this order, the cookie of a dirent is its number.
WnChunkIds == 1..NumWnChunks
WnNoChunk == [used |-> FALSE, dirents |-> <<>>, next_ck |-> 0,
              prev_chunk |-> 0]

\* cookie is state.cookie, chunk state.dir_state, dirent *dirent (0 is
\* NULL), pos the next dirent the running sub-FSAL readdir will list.
IdleWn == [n |-> 0, whence_is_name |-> TRUE, first_ck |-> 0,
           chunks |-> [i \in WnChunkIds |-> WnNoChunk],
           pc |-> "idle", cookie |-> 0, first_chunk |-> 0, chunk |-> 0,
           prev_chunk |-> 0, dirent |-> 0, eod_met |-> FALSE, pos |-> 0,
           asserted |-> "none", dropped |-> FALSE]

\* The create machine: mdcache_create, mdcache_mkdir, mdcache_mknode and
\* mdcache_symlink on one parent directory. pc: where the caller is;
\* invalidate: the caller's local; wlock: the parent's content lock is held
\* for write; trust_attrs, bypass: MDCACHE_TRUST_ATTRS and
\* MDCACHE_BYPASS_DIRCACHE of the parent; dirents: the names in the
\* parent's by-name tree; avl_chunk: mdcache_param.dir.avl_chunk > 0.
\* History of the call: placed (where the new dirent went), cleared (the
\* flag was cleared), refreshed, refresh_locked (the content lock was held
\* at the refresh), refresh_inval (the refresh was one that may invalidate
\* the dirents).
IdleCr == [pc |-> "idle", op |-> "none", n |-> 0, invalidate |-> TRUE,
           wlock |-> FALSE, trust_attrs |-> TRUE, bypass |-> FALSE,
           dirents |-> {}, avl_chunk |-> TRUE, status |-> "none",
           placed |-> "none", cleared |-> FALSE, refreshed |-> FALSE,
           refresh_locked |-> FALSE, refresh_inval |-> FALSE,
           ncalls |-> 0]

\* The parent-handle machine: one directory entry (PwChild) below the
\* directories PwDirs. th[t]: op, the directory d of the call and where
\* the thread is; lock[e]: the writer of e's content lock (0: free);
\* parent: the directory the child's fsdir.parent names (0: empty);
\* writing: the threads inside mdcache_copy_fh or mdcache_free_fh on the
\* child's parent handle.
PwThreads == 1..NumPwThreads
PwDirs == {1, 2}
PwChild == Cardinality(PwDirs) + 1
IdlePw == [th |-> [t \in PwThreads |->
                      [pc |-> "idle", op |-> "none", d |-> 0]],
           lock |-> [e \in PwDirs \cup {PwChild} |-> 0],
           parent |-> 0, writing |-> {}]

\* The getattrs machine: mdcache_getattrs on one entry. e: the entry's
\* attrs (ver: the values; request_acl: ATTR_ACL in attrs.request_mask;
\* acl: the ACL reference, 0 for NULL) and its MDCACHE_TRUST_ATTRS and
\* MDCACHE_TRUST_ACL; lock: the caller's hold on attr_lock; need_acl,
\* req_err: ATTR_ACL and ATTR_RDATTR_ERR in attrs_out->request_mask;
\* out: what the caller was handed; pre: e at the call; killed,
\* kill_locked: mdcache_kill_entry was called, and with attr_lock held.
GtNoOut == [copied |-> FALSE, ver |-> 0, rdattr_err |-> FALSE]
GtNewEntry == [ver |-> 0, request_acl |-> FALSE, acl |-> 0,
               trust_attrs |-> TRUE, trust_acl |-> FALSE]
IdleGt == [pc |-> "idle", e |-> GtNewEntry, pre |-> GtNewEntry,
           lock |-> "none", need_acl |-> FALSE, req_err |-> FALSE,
           out |-> GtNoOut, status |-> "none", killed |-> FALSE,
           kill_locked |-> FALSE, ncalls |-> 0]

\* Concurrent lookups of one name in one directory whose content is
\* trusted: the threads of mdc_lookup, the directory's content_lock, the
\* dirent of the name (present in the by-name index or not), the entry of
\* the object in the hash table (hashed, 0 when there is none), the threads
\* that hold a reference on each entry, whether the name exists in the
\* sub-FSAL (on_fs) and whether the directory is fully populated; the
\* history fields reaped and failed.
LuThreads == 1..NumLuThreads
LuEntries == 1..MaxLuEntries
LuIdleThread == [pc |-> "idle", has_write |-> FALSE, status |-> "none",
                 entry |-> 0, sub |-> FALSE]
IdleLu == [th |-> [t \in LuThreads |-> LuIdleThread],
           lock |-> [readers |-> {}, writer |-> 0],
           dirent |-> FALSE,
           hashed |-> 0,
           nentries |-> 0,
           refs |-> [e \in LuEntries |-> {}],
           on_fs |-> TRUE,
           populated |-> FALSE,
           reaped |-> FALSE,
           failed |-> FALSE]

IdleParts == [dt |-> IdleDt, mp |-> IdleMp, at |-> IdleAt, wn |-> IdleWn,
              cr |-> IdleCr,
              pw |-> IdlePw,
              gt |-> IdleGt,
              lu |-> IdleLu]

\* The machines added later before any call.
InitExtraIdle ==
    /\ rt = IdleRt
    /\ pl = IdlePl
    /\ mu = IdleMu
    /\ cs = IdleCs
    /\ parts = IdleParts

\* The threads of the lock machine before any call.
InitSdlIdle ==
    /\ lk_pc = [t \in Threads |-> "idle"]
    /\ lk_src = [t \in Threads |-> 1]
    /\ lk_dest = [t \in Threads |-> 1]

\* The operations machine before any operation.
InitOpsIdle ==
    /\ dir = [e \in Entries |-> NewDir]
    /\ ot = [t \in Threads |-> IdleOp]
    /\ held = [t \in Threads |-> <<>>]
    /\ unlocked_mut = FALSE
    /\ chunking = FALSE
    /\ nops = 0

Init ==
    /\ InitCacheIdle
    /\ InitSdlIdle
    /\ InitOpsIdle
    /\ InitChunkIdle
    /\ InitExtraIdle
    /\ content_lock = [e \in Entries |-> FreeLock]
    /\ attr_lock = [e \in CEntries |-> FreeLock]

Next ==
    \/ \E t \in Threads :
        \/ Call(t) \/ FkLatch(t) \/ FkCmRet(t) \/ FkRet(t)
        \/ CheckMapping(t)
        \/ NeAlloc(t) \/ AhCmRet(t) \/ NeRace(t) \/ NeSet(t)
        \/ NeRelease(t)
        \/ HoldPut(t) \/ HoldUnreachable(t) \/ HoldKill(t)
    \/ \E x \in Exports : Unexport(x)

Spec == Init /\ [][Next]_vars

(* ------------------------------------------------------------------ *)
(* Claims on the cache machine (Spec)                                  *)
(* ------------------------------------------------------------------ *)
Returned(t) == th[t].pc \in {"hold", "done"}
InsertedFor(k) == {e \in cih : mde[e].key = k}

\* C1: racing mdcache_new_entry calls on one key leave at most one entry
\* for the key in the hash table; a caller that returns success holds an
\* entry that was inserted for its key; the loser of the race never inserts
\* its fresh entry and has disposed of it (put and killed) when it returns.
C1_SingleInsert ==
    /\ \A k \in Keys : Cardinality(InsertedFor(k)) <= 1
    /\ \A t \in Threads :
        (th[t].op = "ne" /\ th[t].pc = "hold") =>
            th[t].entry \in inserted[th[t].key]
    /\ \A t \in Threads : th[t].g_lost =>
            /\ th[t].nentry \notin cih
            /\ \A k \in Keys : th[t].nentry \notin inserted[k]
            /\ Returned(t) => mde[th[t].nentry].lru \in {"cleanup", "freed"}

\* Both threads hold the one inserted entry: one inserted it, the other
\* lost the race and was handed the winner's entry.
C1_Witness ==
    \E t1 \in Threads, t2 \in Threads :
        /\ t1 # t2
        /\ th[t1].op = "ne" /\ th[t2].op = "ne"
        /\ th[t1].pc = "hold" /\ th[t2].pc = "hold"
        /\ th[t1].key = th[t2].key
        /\ th[t2].g_lost /\ ~th[t1].g_lost
        /\ th[t1].entry = th[t1].nentry
        /\ th[t2].entry = th[t1].entry

\* C2 as stated: whenever MDC_UNEXPORT of the current export is set while a
\* mdcache_new_entry call runs, the call returns STALE and adds no record.
C2_Original ==
    \A t \in Threads :
        (th[t].op = "ne" /\ Returned(t) /\ th[t].g_during) =>
            (th[t].status = "STALE" /\ ~th[t].g_added)

\* C2 (amended): a call whose pre-check or re-check under the write locks
\* reads MDC_UNEXPORT set returns STALE and adds no mapping record; a call
\* adds a record only after reading the flag clear at both checks.
C2_Barrier ==
    \A t \in Threads :
        /\ (th[t].g_pre = "set" \/ th[t].g_re = "set") =>
            /\ ~th[t].g_added
            /\ th[t].pc \notin {"cm_fast", "cm_rdlock", "cm_wrlock",
                                "cm_explock", "hold"}
            /\ th[t].pc \in {"fk_cm_ret", "ah_cm_ret"} =>
                    th[t].cm_status = "STALE"
            /\ Returned(t) => (th[t].status = "STALE" /\ th[t].entry = 0)
        /\ th[t].g_added => (th[t].g_pre = "clear" /\ th[t].g_re = "clear")

\* The flag was clear at the pre-check and set at the re-check: the call
\* returned STALE without a record.
C2_Witness ==
    \E t \in Threads :
        /\ th[t].op = "ne" /\ th[t].pc = "done"
        /\ th[t].g_pre = "clear" /\ th[t].g_re = "set"
        /\ th[t].status = "STALE"
        /\ \A x \in Exports : ~InSeq(th[t].cm_e, exp_entry_list[x])

\* C6 as stated: mdcache_find_keyed returns the entry if and only if it is
\* inserted and its MDCACHE_UNREACHABLE flag is clear.
C6_Original ==
    \A t \in Threads :
        (th[t].op = "fk" /\ Returned(t)) =>
            ((th[t].status = "OK" /\ th[t].entry # 0)
                <=> (th[t].g_inhash /\ ~th[t].g_unreach))

\* C6 (amended): mdcache_find_keyed returns the entry if and only if it is
\* inserted, its MDCACHE_UNREACHABLE flag is clear and mdc_check_mapping
\* did not see the caller's export being unexported; with no entry
\* inserted for the key it returns NOENT; a killed entry is not inserted.
C6_Findable ==
    /\ \A t \in Threads :
        (th[t].op = "fk" /\ Returned(t)) =>
            /\ (th[t].status = "OK" /\ th[t].entry # 0)
                <=> (/\ th[t].g_inhash /\ ~th[t].g_unreach
                     /\ th[t].g_pre = "clear" /\ th[t].g_re # "set")
            /\ ~th[t].g_inhash <=> th[t].status = "NOENT"
            /\ th[t].status # "OK" => th[t].entry = 0
    /\ \A e \in CEntries : mde[e].lru \in {"cleanup", "freed"} => e \notin cih

\* A lookup found the entry inserted but marked unreachable and did not
\* return it.
C6_Witness ==
    \E t \in Threads :
        /\ th[t].op = "fk" /\ th[t].pc = "done"
        /\ th[t].g_inhash /\ th[t].g_unreach
        /\ th[t].status = "STALE" /\ th[t].entry = 0

(* ------------------------------------------------------------------ *)
(* Directory operations and the entry locks                            *)
(* ------------------------------------------------------------------ *)
\* The object a name of a directory stands for: name 1 of a directory is
\* the next directory, any other name an object that is no directory (0).
Child(d, n) == IF n = Min1(Names) /\ d < NumEntries THEN d + 1 ELSE 0

DirentSet(r) == <<r.names, r.deleted>>

\* mdcache_avl_qp_insert under mdcache_dirent_add: a name already in the
\* by-name index is left as it is (the existing dirent is handed back, or
\* -2 for another object); a new name is inserted.
QpInsert(r, n) ==
    IF n \in r.names THEN r
    ELSE [r EXCEPT !.names = @ \cup {n}, !.deleted = @ \ {n}]

\* What mdcache_dirent_add makes of MDCACHE_BYPASS_DIRCACHE.
DirentAddBypassAlt(flag) == FALSE
DirentAddBypass(flag) == flag

\* mdcache_dirent_add
DirentAdd(r, n) == IF DirentAddBypass(r.bypass) THEN r ELSE QpInsert(r, n)

\* mdcache_dirent_remove: avl_dirent_set_deleted takes the dirent out of
\* the by-name index; a chunk keeps it, marked deleted.
DirentRemove(r, n, chunked) ==
    IF r.bypass \/ n \notin r.names THEN r
    ELSE [r EXCEPT !.names = @ \ {n},
                   !.deleted = IF chunked THEN @ \cup {n} ELSE @]

\* mdcache_dirent_invalidate_all
InvalidateAll(r) ==
    [r EXCEPT !.names = {}, !.deleted = {}, !.populated = FALSE,
              !.trust_content = TRUE, !.trust_chunks = TRUE]

\* The directory d of thread t's operation becomes r; the history notes a
\* change of the dirent set made without the content lock held for write.
SetDir(t, d, r) ==
    /\ dir' = [dir EXCEPT ![d] = r]
    /\ unlocked_mut' = (unlocked_mut \/
            (DirentSet(r) # DirentSet(dir[d])
                /\ ~HoldsWr(content_lock[d], t)))

\* PTHREAD_RWLOCK_wrlock / rdlock on an entry's content_lock or attr_lock.
OAcquire(t, kind, e, wr) ==
    /\ IF kind = "content"
       THEN /\ IF wr THEN CanWrLock(content_lock[e])
                   ELSE CanRdLock(content_lock[e])
            /\ content_lock' = [content_lock EXCEPT ![e] =
                    IF wr THEN WrLocked(@, t) ELSE RdLocked(@, t)]
            /\ UNCHANGED attr_lock
       ELSE /\ IF wr THEN CanWrLock(attr_lock[e])
                   ELSE CanRdLock(attr_lock[e])
            /\ attr_lock' = [attr_lock EXCEPT ![e] =
                    IF wr THEN WrLocked(@, t) ELSE RdLocked(@, t)]
            /\ UNCHANGED content_lock
    /\ held' = [held EXCEPT ![t] = Append(@, <<kind, e>>)]

RECURSIVE DropLast(_, _)
DropLast(sq, x) ==
    IF sq = <<>> THEN <<>>
    ELSE IF sq[Len(sq)] = x THEN SubSeq(sq, 1, Len(sq) - 1)
    ELSE Append(DropLast(SubSeq(sq, 1, Len(sq) - 1), x), sq[Len(sq)])

\* The thread has the lock in its list of acquired locks.
Acquired(t, kind, e) == \E i \in 1..Len(held[t]) : held[t][i] = <<kind, e>>

\* PTHREAD_RWLOCK_unlock. The unlock of a lock the thread did not acquire,
\* or has released already, stays in the thread's list as "unheld".
ORelease(t, kind, e) ==
    /\ IF kind = "content"
       THEN /\ content_lock' = [content_lock EXCEPT ![e] = Unlocked(@, t)]
            /\ UNCHANGED attr_lock
       ELSE /\ attr_lock' = [attr_lock EXCEPT ![e] = Unlocked(@, t)]
            /\ UNCHANGED content_lock
    /\ held' = [held EXCEPT ![t] =
                    IF Acquired(t, kind, e) THEN DropLast(@, <<kind, e>>)
                    ELSE Append(@, <<"unheld", e>>)]

NoLockStep == UNCHANGED <<content_lock, attr_lock, held>>
NoDirStep == UNCHANGED <<dir, unlocked_mut>>
\* The thread after the return of its operation; has_write stays as the
\* record of an upgrade of the content lock made by the operation.
AfterReturn(o) == [IdleOp EXCEPT !.has_write = o.has_write]
Goto(t, p) == ot' = [ot EXCEPT ![t] = IF p = "idle" THEN AfterReturn(@)
                                    ELSE [@ EXCEPT !.pc = p]]

(* ------------------------------------------------------------------ *)
(* mdcache_src_dest_lock / mdcache_src_dest_unlock                     *)
(* ------------------------------------------------------------------ *)
\* The entry the blocking PTHREAD_RWLOCK_wrlock is called on.
FirstLockAlt(src, dest) == src
FirstLock(src, dest) == IF src = dest THEN src
                        ELSE IF src < dest THEN src ELSE dest
\* The entry pthread_rwlock_trywrlock is called on.
SecondLockAlt(src, dest) == dest
SecondLock(src, dest) == IF src < dest THEN dest ELSE src

\* The caller picks the two directories.
SdlCall(t) ==
    /\ lk_pc[t] = "idle"
    /\ \E s \in Entries, d \in Entries :
        /\ lk_src' = [lk_src EXCEPT ![t] = s]
        /\ lk_dest' = [lk_dest EXCEPT ![t] = d]
    /\ lk_pc' = [lk_pc EXCEPT ![t] = "retry_lock"]
    /\ UNCHANGED content_lock
    /\ UNCHANGED notLock

\* retry_lock: PTHREAD_RWLOCK_wrlock on the first entry; blocks until free.
SdlWrlock(t) ==
    /\ lk_pc[t] = "retry_lock"
    /\ LET f == FirstLock(lk_src[t], lk_dest[t]) IN
        /\ CanWrLock(content_lock[f])
        /\ content_lock' = [content_lock EXCEPT ![f] = WrLocked(@, t)]
        /\ lk_pc' = [lk_pc EXCEPT ![t] =
                IF lk_src[t] = lk_dest[t] THEN "locked" ELSE "try"]
    /\ UNCHANGED <<lk_src, lk_dest>>
    /\ UNCHANGED notLock

\* pthread_rwlock_trywrlock on the second entry: never blocks; on failure
\* the first lock is released in the same branch.
SdlTrylock(t) ==
    /\ lk_pc[t] = "try"
    /\ LET f == FirstLock(lk_src[t], lk_dest[t])
           s == SecondLock(lk_src[t], lk_dest[t]) IN
        IF CanWrLock(content_lock[s])
        THEN /\ content_lock' = [content_lock EXCEPT ![s] = WrLocked(@, t)]
             /\ lk_pc' = [lk_pc EXCEPT ![t] = "locked"]
        ELSE /\ content_lock' = [content_lock EXCEPT ![f] = Unlocked(@, t)]
             /\ lk_pc' = [lk_pc EXCEPT ![t] = "sleep"]
    /\ UNCHANGED <<lk_src, lk_dest>>
    /\ UNCHANGED notLock

\* sleep(1); goto retry_lock
SdlSleep(t) ==
    /\ lk_pc[t] = "sleep"
    /\ lk_pc' = [lk_pc EXCEPT ![t] = "retry_lock"]
    /\ UNCHANGED <<content_lock, lk_src, lk_dest>>
    /\ UNCHANGED notLock

\* mdcache_src_dest_unlock, first PTHREAD_RWLOCK_unlock
SdlUnlock1(t) ==
    /\ lk_pc[t] = "locked"
    /\ LET s == lk_src[t]  d == lk_dest[t] IN
        IF s = d
        THEN /\ content_lock' = [content_lock EXCEPT ![s] = Unlocked(@, t)]
             /\ lk_pc' = [lk_pc EXCEPT ![t] = "idle"]
        ELSE /\ content_lock' = [content_lock EXCEPT
                    ![IF s < d THEN d ELSE s] = Unlocked(@, t)]
             /\ lk_pc' = [lk_pc EXCEPT ![t] = "unlock2"]
    /\ UNCHANGED <<lk_src, lk_dest>>
    /\ UNCHANGED notLock

\* mdcache_src_dest_unlock, second PTHREAD_RWLOCK_unlock
SdlUnlock2(t) ==
    /\ lk_pc[t] = "unlock2"
    /\ LET s == lk_src[t]  d == lk_dest[t] IN
        content_lock' = [content_lock EXCEPT
                    ![IF s < d THEN s ELSE d] = Unlocked(@, t)]
    /\ lk_pc' = [lk_pc EXCEPT ![t] = "idle"]
    /\ UNCHANGED <<lk_src, lk_dest>>
    /\ UNCHANGED notLock

InitLock ==
    /\ InitCacheIdle
    /\ InitSdlIdle
    /\ InitOpsIdle
    /\ InitChunkIdle
    /\ InitExtraIdle
    /\ content_lock = [e \in Entries |-> FreeLock]
    /\ attr_lock = [e \in CEntries |-> FreeLock]

NextLock ==
    \E t \in Threads :
        \/ SdlCall(t)
        \/ SdlWrlock(t)
        \/ SdlTrylock(t)
        \/ SdlSleep(t)
        \/ SdlUnlock1(t)
        \/ SdlUnlock2(t)

SpecLock == InitLock /\ [][NextLock]_vars

\* t is blocked in PTHREAD_RWLOCK_wrlock on e
SdlWaits(t, e) ==
    /\ lk_pc[t] = "retry_lock"
    /\ FirstLock(lk_src[t], lk_dest[t]) = e
    /\ ~CanWrLock(content_lock[e])
SdlHolds(t, e) == HoldsWr(content_lock[e], t)

\* C3: no two threads each hold one directory's content lock and wait for
\* the other's; a thread that is about to block in wrlock holds no content
\* lock at all; a thread that holds exactly one of two distinct locks holds
\* the lower-address one (the one the blocking wrlock was called on).
C3_NoCircularWait ==
    /\ \A t1 \in Threads, t2 \in Threads, a \in Entries, b \in Entries :
        ~(/\ t1 # t2 /\ a # b
          /\ SdlHolds(t1, a) /\ SdlWaits(t1, b)
          /\ SdlHolds(t2, b) /\ SdlWaits(t2, a))
    /\ \A t \in Threads : lk_pc[t] \in {"retry_lock", "sleep"} =>
            \A e \in Entries : ~SdlHolds(t, e)
    /\ \A t \in Threads : lk_pc[t] = "try" =>
            /\ lk_src[t] # lk_dest[t]
            /\ \A e \in Entries : SdlHolds(t, e) <=>
                    (e = lk_src[t] \/ e = lk_dest[t])
                    /\ (\A o \in {lk_src[t], lk_dest[t]} : e <= o)

\* Two threads asked for the same pair in opposite order; one holds the
\* lower entry and is at the try-lock, the other is blocked on that entry.
C3_Witness ==
    \E t1 \in Threads, t2 \in Threads :
        /\ t1 # t2
        /\ lk_src[t1] = lk_dest[t2] /\ lk_dest[t1] = lk_src[t2]
        /\ lk_src[t1] < lk_dest[t1]
        /\ lk_pc[t1] = "try"
        /\ SdlWaits(t2, lk_src[t1])

(* ------------------------------------------------------------------ *)
(* The operations on directories: lookup, readdir, create, unlink,     *)
(* rename, getattrs, setattrs                                          *)
(* ------------------------------------------------------------------ *)
OpNames == {"lookup", "readdir", "create", "unlink", "rename", "getattrs",
            "setattrs"}
FirstPc(op) ==
    CASE op = "lookup" -> "lk_rdlock"
      [] op = "readdir" -> "rd_start"
      [] op = "create" -> "cr_lock"
      [] op = "unlink" -> "ul_lock"
      [] op = "rename" -> "retry_lock"
      [] op = "setattrs" -> "sa_wrlock"
      [] OTHER -> "ga_rdlock"

\* A protocol request reaches the handle operation: directory, names.
OpStart(t) ==
    /\ ot[t].pc = "idle"
    /\ nops < MaxOps
    /\ nops' = nops + 1
    /\ \E op \in OpNames, d \in Entries, n \in Names :
        \E d2 \in (IF op = "rename" THEN Entries ELSE {d}),
           n2 \in (IF op = "rename" THEN Names ELSE {n}) :
            ot' = [ot EXCEPT ![t] =
                    [IdleOp EXCEPT !.pc = FirstPc(op), !.op = op, !.d = d,
                        !.d2 = d2, !.n = n, !.n2 = n2,
                        !.child = IF op \in {"getattrs", "setattrs"}
                                  THEN d ELSE 0,
                        !.ret2 = "idle"]]
    /\ NoLockStep /\ NoDirStep
    /\ UNCHANGED chunking
    /\ UNCHANGED notOps

\* mdc_try_get_cached(d, n): the statuses it can return.  A dirent found
\* by name gives OK, or STALE when mdcache_find_keyed misses the child.
TryGetCached(r, n) ==
    IF r.bypass \/ ~r.trust_content THEN {"STALE"}
    ELSE IF n \in r.names THEN {"OK", "STALE"}
    ELSE IF r.populated THEN {"NOENT", "STALE"}
    ELSE {"STALE"}

\* mdc_check_mapping under mdcache_find_keyed: the fast path when
\* first_export_id is the current export, else the attr_lock is taken.
OCm(t) ==
    /\ ot[t].pc = "cm"
    /\ LET c == ot[t].child IN
        IF c = 0 \/ dir[c].first_export
        THEN Goto(t, ot[t].ret) /\ NoLockStep
        ELSE OAcquire(t, "attr", c, FALSE) /\ Goto(t, "cm_unlock")
    /\ NoDirStep
    /\ UNCHANGED <<chunking, nops>>
    /\ UNCHANGED notOps

OCmUnlock(t) ==
    /\ ot[t].pc = "cm_unlock"
    /\ ORelease(t, "attr", ot[t].child)
    /\ Goto(t, ot[t].ret)
    /\ NoDirStep
    /\ UNCHANGED <<chunking, nops>>
    /\ UNCHANGED notOps

\* mdc_lookup: PTHREAD_RWLOCK_rdlock(&mdc_parent->content_lock)
LkRdlock(t) ==
    /\ ot[t].pc = "lk_rdlock"
    /\ OAcquire(t, "content", ot[t].d, FALSE)
    /\ ot' = [ot EXCEPT ![t].pc =
                IF dir[ot[t].d].bypass THEN "lk_uncached" ELSE "lk_try",
                        ![t].st = IF dir[ot[t].d].bypass THEN "bypass"
                                  ELSE "OK"]
    /\ NoDirStep
    /\ UNCHANGED <<chunking, nops>>
    /\ UNCHANGED notOps

\* mdc_lookup: mdc_try_get_cached, first under the read lock and again
\* under the write lock.
LkTry(t) ==
    /\ ot[t].pc = "lk_try"
    /\ \E st \in TryGetCached(dir[ot[t].d], ot[t].n) :
        ot' = [ot EXCEPT
            ![t].pc = CASE st = "OK" -> "cm"
                        [] st = "NOENT" -> "unlock_done"
                        [] st = "STALE" /\ ~ot[t].has_write -> "up_unlock"
                        [] OTHER -> "lk_uncached",
            ![t].ret = IF st = "OK" THEN "unlock_done" ELSE "lk_try",
            ![t].child = IF st = "OK" THEN Child(ot[t].d, ot[t].n) ELSE 0,
            ![t].st = st]
    /\ NoLockStep /\ NoDirStep
    /\ UNCHANGED <<chunking, nops>>
    /\ UNCHANGED notOps

\* PTHREAD_RWLOCK_unlock before the upgrade to the write lock (mdc_lookup,
\* mdcache_readdir_chunked).
UpUnlock(t) ==
    /\ ot[t].pc = "up_unlock"
    /\ ORelease(t, "content", ot[t].d)
    /\ Goto(t, "up_wrlock")
    /\ NoDirStep
    /\ UNCHANGED <<chunking, nops>>
    /\ UNCHANGED notOps

\* PTHREAD_RWLOCK_wrlock of the upgrade; has_write = true.
UpWrlock(t) ==
    /\ ot[t].pc = "up_wrlock"
    /\ OAcquire(t, "content", ot[t].d, TRUE)
    /\ ot' = [ot EXCEPT ![t].pc = ot[t].ret, ![t].has_write = TRUE]
    /\ NoDirStep
    /\ UNCHANGED <<chunking, nops>>
    /\ UNCHANGED notOps

\* mdc_lookup from "Need to look up": invalidate_all when the content is
\* not trusted (skipped on the bypass path), then mdc_lookup_uncached,
\* whose mdcache_alloc_and_check_handle adds the dirent.
LkUncached(t) ==
    /\ ot[t].pc = "lk_uncached"
    /\ LET d == ot[t].d
           r0 == IF ot[t].st # "bypass" /\ ~dir[d].trust_content
                 THEN InvalidateAll(dir[d]) ELSE dir[d]
       IN \E found \in BOOLEAN :
            SetDir(t, d, IF found THEN DirentAdd(r0, ot[t].n) ELSE r0)
    /\ Goto(t, "unlock_done")
    /\ NoLockStep
    /\ UNCHANGED <<chunking, nops>>
    /\ UNCHANGED notOps

UnlockDoneAlt(t) ==
    /\ ot[t].pc = "unlock_done"
    /\ IF ot[t].has_write THEN NoLockStep
       ELSE ORelease(t, "content", ot[t].d)
    /\ ot' = [ot EXCEPT ![t] = AfterReturn(@)]
    /\ NoDirStep
    /\ UNCHANGED <<chunking, nops>>
    /\ UNCHANGED notOps

\* out: PTHREAD_RWLOCK_unlock(&...->content_lock); return
UnlockDone(t) ==
    /\ ot[t].pc = "unlock_done"
    /\ ORelease(t, "content", ot[t].d)
    /\ ot' = [ot EXCEPT ![t] = AfterReturn(@)]
    /\ NoDirStep
    /\ UNCHANGED <<chunking, nops>>
    /\ UNCHANGED notOps

\* mdcache_getattrs: PTHREAD_RWLOCK_rdlock(&entry->attr_lock).  The entry
\* is ot[t].child; an object that is no directory has no locks here.
GaRdlock(t) ==
    /\ ot[t].pc = "ga_rdlock"
    /\ IF ot[t].child = 0
       THEN Goto(t, ot[t].ret2) /\ NoLockStep
       ELSE OAcquire(t, "attr", ot[t].child, FALSE) /\ Goto(t, "ga_check")
    /\ NoDirStep
    /\ UNCHANGED <<chunking, nops>>
    /\ UNCHANGED notOps

\* mdcache_is_attrs_valid under the read lock: goto unlock, or drop the
\* read lock to take the write lock.
GaCheck(t) ==
    /\ ot[t].pc = "ga_check"
    /\ ORelease(t, "attr", ot[t].child)
    /\ \E valid \in BOOLEAN :
        Goto(t, IF valid THEN ot[t].ret2 ELSE "ga_wrlock")
    /\ NoDirStep
    /\ UNCHANGED <<chunking, nops>>
    /\ UNCHANGED notOps

GaWrlock(t) ==
    /\ ot[t].pc = "ga_wrlock"
    /\ OAcquire(t, "attr", ot[t].child, TRUE)
    /\ Goto(t, "ga_refresh")
    /\ NoDirStep
    /\ UNCHANGED <<chunking, nops>>
    /\ UNCHANGED notOps

\* mdcache_refresh_attrs(entry, need_acl, true): when the mtime of a
\* directory moved on, PTHREAD_RWLOCK_wrlock(&entry->content_lock).
GaRefresh(t) ==
    /\ ot[t].pc = "ga_refresh"
    /\ \/ Goto(t, "ga_unlock") /\ NoLockStep
       \/ OAcquire(t, "content", ot[t].child, TRUE) /\ Goto(t, "ga_inval")
    /\ NoDirStep
    /\ UNCHANGED <<chunking, nops>>
    /\ UNCHANGED notOps

\* mdcache_dirent_invalidate_all(entry); PTHREAD_RWLOCK_unlock
GaInval(t) ==
    /\ ot[t].pc = "ga_inval"
    /\ SetDir(t, ot[t].child, InvalidateAll(dir[ot[t].child]))
    /\ ORelease(t, "content", ot[t].child)
    /\ Goto(t, "ga_unlock")
    /\ UNCHANGED <<chunking, nops>>
    /\ UNCHANGED notOps

\* unlock: PTHREAD_RWLOCK_unlock(&entry->attr_lock)
GaUnlock(t) ==
    /\ ot[t].pc = "ga_unlock"
    /\ ORelease(t, "attr", ot[t].child)
    /\ Goto(t, ot[t].ret2)
    /\ NoDirStep
    /\ UNCHANGED <<chunking, nops>>
    /\ UNCHANGED notOps

\* mdcache_setattrs: PTHREAD_RWLOCK_wrlock(&entry->attr_lock), then the
\* sub-FSAL's setattrs and, when it succeeded, mdcache_refresh_attrs with
\* invalidate false, which takes no lock; both ways lead to unlock.
SaWrlock(t) ==
    /\ ot[t].pc = "sa_wrlock"
    /\ OAcquire(t, "attr", ot[t].child, TRUE)
    /\ \E st \in {"OK", "STALE"} :
        ot' = [ot EXCEPT ![t].pc = "ga_unlock", ![t].st = st]
    /\ NoDirStep
    /\ UNCHANGED <<chunking, nops>>
    /\ UNCHANGED notOps

\* mdcache_create, mdcache_mkdir, mdcache_mknode, mdcache_symlink,
\* mdcache_link after the sub-FSAL call succeeded:
\* PTHREAD_RWLOCK_wrlock(&parent->content_lock)
CrLock(t) ==
    /\ ot[t].pc = "cr_lock"
    /\ OAcquire(t, "content", ot[t].d, TRUE)
    /\ Goto(t, "cr_add")
    /\ NoDirStep
    /\ UNCHANGED <<chunking, nops>>
    /\ UNCHANGED notOps

\* mdcache_alloc_and_check_handle -> mdcache_dirent_add, under the lock.
\* mdcache_new_entry may fail before the dirent is added.
CrAdd(t) ==
    /\ ot[t].pc = "cr_add"
    /\ \E ok \in BOOLEAN :
        SetDir(t, ot[t].d, IF ok THEN DirentAdd(dir[ot[t].d], ot[t].n)
                           ELSE dir[ot[t].d])
    /\ Goto(t, "unlock_done")
    /\ NoLockStep
    /\ UNCHANGED <<chunking, nops>>
    /\ UNCHANGED notOps

\* mdcache_unlink after the sub-FSAL call: on NOTEMPTY for a directory the
\* entry's content lock, on success the parent's.
UlLock(t) ==
    /\ ot[t].pc = "ul_lock"
    /\ LET c == Child(ot[t].d, ot[t].n) IN
        \/ /\ OAcquire(t, "content", ot[t].d, TRUE)
           /\ ot' = [ot EXCEPT ![t].pc = "ul_body", ![t].st = "OK"]
        \/ /\ c # 0
           /\ OAcquire(t, "content", c, TRUE)
           /\ ot' = [ot EXCEPT ![t].pc = "ul_body", ![t].st = "NOTEMPTY",
                               ![t].child = c]
    /\ NoDirStep
    /\ UNCHANGED <<chunking, nops>>
    /\ UNCHANGED notOps

\* mdcache_dirent_remove(parent, name), or
\* mdcache_dirent_invalidate_all(entry); then PTHREAD_RWLOCK_unlock.
UlBody(t) ==
    /\ ot[t].pc = "ul_body"
    /\ IF ot[t].st = "OK"
       THEN /\ SetDir(t, ot[t].d,
                      DirentRemove(dir[ot[t].d], ot[t].n, chunking))
            /\ ORelease(t, "content", ot[t].d)
       ELSE /\ SetDir(t, ot[t].child, InvalidateAll(dir[ot[t].child]))
            /\ ORelease(t, "content", ot[t].child)
    /\ ot' = [ot EXCEPT ![t] = AfterReturn(@)]
    /\ UNCHANGED <<chunking, nops>>
    /\ UNCHANGED notOps

\* The names of S in the order the sub-FSAL lists them.
RECURSIVE ListingOf(_)
ListingOf(S) == IF S = {} THEN <<>>
                ELSE <<Min1(S)>> \o ListingOf(S \ {Min1(S)})

\* mdc_add_cache's test before it inserts: the by-name tree is full.
AvlFull(size) == size > AvlMax

\* The sub-FSAL readdir of mdcache_dirent_populate calling
\* mdc_populate_dirent -> mdc_add_cache for each name of the listing.
RECURSIVE PopulateLoop(_, _)
PopulateLoop(r, listing) ==
    IF listing = <<>> THEN [r |-> r, st |-> "OK"]
    ELSE IF AvlFull(Cardinality(r.names)) THEN [r |-> r, st |-> "OVERFLOW"]
    ELSE PopulateLoop(DirentAdd(r, Head(listing)), Tail(listing))

\* mdcache_dirent_populate
DirentPopulate(r, listing) ==
    IF r.populated /\ r.trust_content THEN [r |-> r, st |-> "OK"]
    ELSE LET res == PopulateLoop(InvalidateAll(r), listing) IN
         IF res.st = "OK"
         THEN [r |-> [res.r EXCEPT !.populated = TRUE], st |-> "OK"]
         ELSE res

\* mdcache_readdir up to its first lock: bypass goes to the sub-FSAL,
\* chunking to mdcache_readdir_chunked, an untrusted directory to
\* mdcache_dirent_populate.
RdStart(t) ==
    /\ ot[t].pc = "rd_start"
    /\ LET r == dir[ot[t].d] IN
        IF r.bypass THEN Goto(t, "idle")
        ELSE IF chunking
        THEN IF r.trust_content /\ r.populated /\ r.trust_chunks
             THEN ot' = [ot EXCEPT ![t].pc = "rdlock", ![t].ret = "rc_again"]
             ELSE ot' = [ot EXCEPT ![t].pc = "up_wrlock",
                                   ![t].ret = "rc_inval"]
        ELSE IF ~(r.trust_content /\ r.populated)
        THEN ot' = [ot EXCEPT ![t].pc = "up_wrlock", ![t].ret = "rd_pop"]
        ELSE ot' = [ot EXCEPT ![t].pc = "rdlock", ![t].ret = "rd_loop"]
    /\ NoLockStep /\ NoDirStep
    /\ UNCHANGED <<chunking, nops>>
    /\ UNCHANGED notOps

\* PTHREAD_RWLOCK_rdlock(&directory->content_lock); the walk starts at
\* the first dirent.
ORdlock(t) ==
    /\ ot[t].pc = "rdlock"
    /\ OAcquire(t, "content", ot[t].d, FALSE)
    /\ ot' = [ot EXCEPT ![t].pc = ot[t].ret, ![t].has_write = FALSE,
                        ![t].todo = dir[ot[t].d].names]
    /\ NoDirStep
    /\ UNCHANGED <<chunking, nops>>
    /\ UNCHANGED notOps

\* mdcache_dirent_populate under the write lock, then the unlock; on
\* ERR_FSAL_OVERFLOW the bypass path, on another error the return.
RdPop(t) ==
    /\ ot[t].pc = "rd_pop"
    /\ \E S \in Listings, fail \in BOOLEAN :
        LET res == DirentPopulate(dir[ot[t].d], ListingOf(S))
            inv == InvalidateAll(dir[ot[t].d]) IN
        IF fail /\ ~(dir[ot[t].d].populated /\ dir[ot[t].d].trust_content)
        THEN SetDir(t, ot[t].d, inv) /\ Goto(t, "idle")
        ELSE /\ SetDir(t, ot[t].d, res.r)
             /\ ot' = [ot EXCEPT ![t].has_write = FALSE,
                          ![t].pc = IF res.st = "OK" THEN "rdlock"
                                    ELSE "rd_ovf",
                          ![t].ret = "rd_loop"]
    /\ ORelease(t, "content", ot[t].d)
    /\ UNCHANGED <<chunking, nops>>
    /\ UNCHANGED notOps

\* atomic_set_uint32_t_bits(&directory->mde_flags, MDCACHE_BYPASS_DIRCACHE)
RdOvf(t) ==
    /\ ot[t].pc = "rd_ovf"
    /\ SetDir(t, ot[t].d, [dir[ot[t].d] EXCEPT !.bypass = TRUE])
    /\ ot' = [ot EXCEPT ![t].pc = "up_wrlock", ![t].ret = "rd_ovf_inval"]
    /\ NoLockStep
    /\ UNCHANGED <<chunking, nops>>
    /\ UNCHANGED notOps

\* What mdcache_readdir does to the dirents after ERR_FSAL_OVERFLOW.
OverflowDropAlt(r) == r
OverflowDrop(r) == InvalidateAll(r)

\* mdcache_dirent_invalidate_all under the write lock, the unlock, and
\* mdcache_readdir_uncached.
RdOvfInval(t) ==
    /\ ot[t].pc = "rd_ovf_inval"
    /\ SetDir(t, ot[t].d, OverflowDrop(dir[ot[t].d]))
    /\ ORelease(t, "content", ot[t].d)
    /\ Goto(t, "idle")
    /\ UNCHANGED <<chunking, nops>>
    /\ UNCHANGED notOps

\* One round of the loop of mdcache_readdir: mdc_try_get_cached; on STALE
\* mdc_lookup_uncached (with the lock held for read); then getattrs on
\* the child and the callback.
RdLoop(t) ==
    /\ ot[t].pc = "rd_loop"
    /\ LET d == ot[t].d IN
        IF ot[t].todo = {}
        THEN Goto(t, "unlock_done") /\ NoDirStep
        ELSE LET n == Min1(ot[t].todo) IN
            \E st \in TryGetCached(dir[d], n), ok \in BOOLEAN,
               term \in BOOLEAN :
                IF st = "STALE" /\ ~ok
                THEN Goto(t, "unlock_done") /\ NoDirStep
                ELSE /\ IF st = "STALE"
                        THEN SetDir(t, d, DirentAdd(dir[d], n))
                        ELSE NoDirStep
                     /\ ot' = [ot EXCEPT
                            ![t].pc = IF st = "OK" THEN "cm"
                                      ELSE "ga_rdlock",
                            ![t].st = st,
                            ![t].ret = "ga_rdlock",
                            ![t].ret2 = IF term THEN "unlock_done"
                                        ELSE "rd_loop",
                            ![t].child = Child(d, n),
                            ![t].todo = @ \ {n}]
    /\ NoLockStep
    /\ UNCHANGED <<chunking, nops>>
    /\ UNCHANGED notOps

\* mdc_readdir_chunk_object for each name the sub-FSAL hands to
\* mdcache_populate_dir_chunk: mdcache_avl_qp_insert, without the
\* bypass test and without a limit.
RECURSIVE ChunkInsert(_, _)
ChunkInsert(r, S) ==
    IF S = {} THEN r
    ELSE ChunkInsert(QpInsert(r, Min1(S)), S \ {Min1(S)})

\* mdcache_readdir_chunked: mdcache_dirent_invalidate_all after the write
\* lock was taken because a flag was missing.
RcInval(t) ==
    /\ ot[t].pc = "rc_inval"
    /\ SetDir(t, ot[t].d, InvalidateAll(dir[ot[t].d]))
    /\ Goto(t, "rc_again")
    /\ NoLockStep
    /\ UNCHANGED <<chunking, nops>>
    /\ UNCHANGED notOps

\* again: the cookie is looked up in the cache; on a miss the lock is
\* upgraded, and under the write lock mdcache_populate_dir_chunk runs.
RcAgain(t) ==
    /\ ot[t].pc = "rc_again"
    /\ LET d == ot[t].d
           r == dir[d] IN
        \/ /\ r.names \cup r.deleted # {}
           /\ ot' = [ot EXCEPT ![t].pc = "rc_loop", ![t].todo = r.names]
           /\ NoDirStep
        \/ /\ ~ot[t].has_write
           /\ ot' = [ot EXCEPT ![t].pc = "up_unlock", ![t].ret = "rc_again"]
           /\ NoDirStep
        \/ /\ ot[t].has_write
           /\ \E S \in Listings, eod \in BOOLEAN, fail \in BOOLEAN :
                IF fail THEN Goto(t, "unlock_done") /\ NoDirStep
                ELSE /\ SetDir(t, d,
                            [ChunkInsert(r, S) EXCEPT !.populated = eod])
                     /\ ot' = [ot EXCEPT
                            ![t].pc = IF S = {} THEN "unlock_done"
                                      ELSE "rc_loop",
                            ![t].todo = S]
    /\ NoLockStep
    /\ UNCHANGED <<chunking, nops>>
    /\ UNCHANGED notOps

\* One round of the loop over the chunk's dirents: mdcache_find_keyed; on
\* a miss the upgrade to the write lock or, with it, mdc_lookup_uncached;
\* getattrs on the child and the callback.  At the end of the chunk the
\* next one (goto again) or the return.
RcLoop(t) ==
    /\ ot[t].pc = "rc_loop"
    /\ LET d == ot[t].d IN
        IF ot[t].todo = {}
        THEN /\ \E more \in BOOLEAN :
                    Goto(t, IF more THEN "rc_again" ELSE "unlock_done")
             /\ NoDirStep
        ELSE LET n == Min1(ot[t].todo) IN
            \E hit \in BOOLEAN, ok \in BOOLEAN, term \in BOOLEAN :
                IF ~hit /\ ~ot[t].has_write
                THEN /\ ot' = [ot EXCEPT ![t].pc = "up_unlock",
                                         ![t].ret = "rc_again"]
                     /\ NoDirStep
                ELSE IF ~hit /\ ~ok
                THEN Goto(t, "unlock_done") /\ NoDirStep
                ELSE /\ IF ~hit THEN SetDir(t, d, DirentAdd(dir[d], n))
                        ELSE NoDirStep
                     /\ ot' = [ot EXCEPT
                            ![t].pc = IF hit THEN "cm" ELSE "ga_rdlock",
                            ![t].st = IF hit THEN "OK" ELSE "STALE",
                            ![t].ret = "ga_rdlock",
                            ![t].ret2 = IF term THEN "unlock_done"
                                        ELSE "rc_loop",
                            ![t].child = Child(d, n),
                            ![t].todo = @ \ {n}]
    /\ NoLockStep
    /\ UNCHANGED <<chunking, nops>>
    /\ UNCHANGED notOps

\* mdcache_dirent_rename (same directory, no chunking) and what
\* mdcache_rename does with its status: nothing under bypass; when the old
\* name is not cached, NOENT from a trusted directory makes the caller
\* invalidate; a cached new name is overwritten when the content is
\* trusted, else EXIST makes the caller invalidate; otherwise the old
\* dirent is deleted and one for the new name inserted.
DirentRename(r, n, n2) ==
    IF r.bypass THEN r
    ELSE IF n \notin r.names
    THEN IF r.trust_content /\ r.populated THEN InvalidateAll(r) ELSE r
    ELSE IF n2 \in r.names /\ ~r.trust_content THEN InvalidateAll(r)
    ELSE [r EXCEPT !.names = (@ \ {n}) \cup {n2}]

\* The directories become f; the history notes every dirent set that
\* changed without its content lock held for write.
SetDirs(t, f) ==
    /\ dir' = f
    /\ unlocked_mut' = (unlocked_mut \/
            \E e \in Entries : /\ DirentSet(f[e]) # DirentSet(dir[e])
                               /\ ~HoldsWr(content_lock[e], t))

\* mdcache_rename: mdcache_src_dest_lock, the blocking wrlock on the first
\* of the two directories.
RnWrlock(t) ==
    /\ ot[t].pc = "retry_lock"
    /\ OAcquire(t, "content", FirstLock(ot[t].d, ot[t].d2), TRUE)
    /\ Goto(t, IF ot[t].d = ot[t].d2 THEN "rn_try" ELSE "try")
    /\ NoDirStep
    /\ UNCHANGED <<chunking, nops>>
    /\ UNCHANGED notOps

\* pthread_rwlock_trywrlock on the second; on failure the first is
\* unlocked and, after the sleep, the thread starts again.
RnTrylock(t) ==
    /\ ot[t].pc = "try"
    /\ IF CanWrLock(content_lock[SecondLock(ot[t].d, ot[t].d2)])
       THEN /\ OAcquire(t, "content", SecondLock(ot[t].d, ot[t].d2), TRUE)
            /\ Goto(t, "rn_try")
       ELSE /\ ORelease(t, "content", FirstLock(ot[t].d, ot[t].d2))
            /\ Goto(t, "retry_lock")
    /\ NoDirStep
    /\ UNCHANGED <<chunking, nops>>
    /\ UNCHANGED notOps

\* mdcache_rename: mdc_try_get_cached(mdc_newdir, new_name, &mdc_lookup_dst)
\* with both locks held; a destination found goes through
\* mdcache_find_keyed and so mdc_check_mapping.
RnTry(t) ==
    /\ ot[t].pc = "rn_try"
    /\ \E st \in TryGetCached(dir[ot[t].d2], ot[t].n2) :
        ot' = [ot EXCEPT
            ![t].pc = IF st = "OK" THEN "cm" ELSE "rn_body",
            ![t].ret = IF ot[t].d = ot[t].d2 /\ ot[t].n = ot[t].n2
                       THEN "rn_unlock" ELSE "rn_body",
            ![t].child = IF st = "OK" THEN Child(ot[t].d2, ot[t].n2) ELSE 0,
            ![t].st = IF st = "OK" THEN "dst" ELSE "nodst"]
    /\ NoLockStep /\ NoDirStep
    /\ UNCHANGED <<chunking, nops>>
    /\ UNCHANGED notOps

\* mdcache_rename from the sub-FSAL rename to the unlock label: the
\* destination's dirent is removed, then one of the three branches (the
\* key changes; same directory without chunking; the entry moves).
RnBody(t) ==
    /\ ot[t].pc = "rn_body"
    /\ LET d == ot[t].d
           d2 == ot[t].d2
           n == ot[t].n
           n2 == ot[t].n2
           dirA == IF ot[t].st = "dst"
                   THEN [dir EXCEPT ![d2] = DirentRemove(@, n2, chunking)]
                   ELSE dir
           dirB == [dirA EXCEPT ![d] = DirentRemove(@, n, chunking)]
           key == [dirB EXCEPT ![d2] = InvalidateAll(@)]
           same == [dirA EXCEPT ![d2] = DirentRename(@, n, n2)]
           move == IF dirB[d2].bypass THEN dirB
                   ELSE [dirB EXCEPT ![d2] =
                            DirentAdd(DirentRemove(@, n2, chunking), n2)]
       IN \E ok \in BOOLEAN, changes_key \in BOOLEAN :
            IF ~ok THEN NoDirStep
            ELSE IF changes_key THEN SetDirs(t, key)
            ELSE IF d = d2 /\ ~chunking THEN SetDirs(t, same)
            ELSE SetDirs(t, move)
    /\ Goto(t, "rn_unlock")
    /\ NoLockStep
    /\ UNCHANGED <<chunking, nops>>
    /\ UNCHANGED notOps

\* mdcache_src_dest_unlock: the higher-address lock goes first.
RnUnlock1(t) ==
    /\ ot[t].pc = "rn_unlock"
    /\ ORelease(t, "content", SecondLock(ot[t].d, ot[t].d2))
    /\ Goto(t, IF ot[t].d = ot[t].d2 THEN "idle" ELSE "rn_unlock2")
    /\ NoDirStep
    /\ UNCHANGED <<chunking, nops>>
    /\ UNCHANGED notOps

RnUnlock2(t) ==
    /\ ot[t].pc = "rn_unlock2"
    /\ ORelease(t, "content", FirstLock(ot[t].d, ot[t].d2))
    /\ Goto(t, "idle")
    /\ NoDirStep
    /\ UNCHANGED <<chunking, nops>>
    /\ UNCHANGED notOps

\* Directories are cached; one that is found through its parent is mapped
\* to the current export first or not; dirent chunking is configured or
\* not.
InitOps ==
    /\ InitCacheIdle
    /\ InitSdlIdle
    /\ InitChunkIdle
    /\ InitExtraIdle
    /\ content_lock = [e \in Entries |-> FreeLock]
    /\ attr_lock = [e \in Entries |-> FreeLock]
    /\ \E f \in [Entries -> BOOLEAN] :
        /\ f[Min1(Entries)]
        /\ dir = [e \in Entries |-> [NewDir EXCEPT !.first_export = f[e]]]
    /\ ot = [t \in Threads |-> IdleOp]
    /\ held = [t \in Threads |-> <<>>]
    /\ unlocked_mut = FALSE
    /\ chunking \in BOOLEAN
    /\ nops = 0

NextOps ==
    \E t \in Threads :
        \/ OpStart(t)
        \/ OCm(t)
        \/ OCmUnlock(t)
        \/ LkRdlock(t)
        \/ LkTry(t)
        \/ UpUnlock(t)
        \/ UpWrlock(t)
        \/ LkUncached(t)
        \/ UnlockDone(t)
        \/ GaRdlock(t)
        \/ GaCheck(t)
        \/ GaWrlock(t)
        \/ GaRefresh(t)
        \/ GaInval(t)
        \/ GaUnlock(t)
        \/ SaWrlock(t)
        \/ CrLock(t)
        \/ CrAdd(t)
        \/ UlLock(t)
        \/ UlBody(t)
        \/ RdStart(t)
        \/ ORdlock(t)
        \/ RdPop(t)
        \/ RdOvf(t)
        \/ RdOvfInval(t)
        \/ RdLoop(t)
        \/ RcInval(t)
        \/ RcAgain(t)
        \/ RcLoop(t)
        \/ RnWrlock(t)
        \/ RnTrylock(t)
        \/ RnTry(t)
        \/ RnBody(t)
        \/ RnUnlock1(t)
        \/ RnUnlock2(t)

SpecOps == InitOps /\ [][NextOps]_vars

C5_Original ==
    \A t \in Threads : \A i \in 1..Len(held[t]), j \in 1..Len(held[t]) :
        ~(/\ i < j
          /\ held[t][i][1] = "content"
          /\ held[t][j][1] = "attr"
          /\ held[t][i][2] = held[t][j][2])

\* C9 as stated: without chunking, the by-name index of a directory never
\* holds more than avl_max dirents.
C9_Original ==
    ~chunking => \A e \in Entries : Cardinality(dir[e].names) <= AvlMax

\* The readdir that got ERR_FSAL_OVERFLOW has set the flag on e and has
\* not yet invalidated e's dirents.
DropPending(e) ==
    \E t \in Threads :
        /\ ot[t].op = "readdir"
        /\ ot[t].d = e
        /\ \/ ot[t].pc = "rd_ovf_inval"
           \/ ot[t].pc = "up_wrlock" /\ ot[t].ret = "rd_ovf_inval"
NoDirents(r) == r.names = {} /\ r.deleted = {}

\* C10: a directory with MDCACHE_BYPASS_DIRCACHE set holds no dirents once
\* the readdir that set the flag has dropped them, and from then on the
\* flag stays and no step of any operation (lookup, readdir, create,
\* unlink, rename, getattrs) puts a dirent back.
C10_Bypass ==
    /\ [](\A e \in Entries :
            dir[e].bypass /\ ~DropPending(e) => NoDirents(dir[e]))
    /\ [][\A e \in Entries :
            dir[e].bypass /\ NoDirents(dir[e]) =>
                dir'[e].bypass /\ NoDirents(dir'[e])]_vars

\* After the overflow and the drop, a lookup went to the sub-FSAL on the
\* bypass path, found the name, and the directory still holds no dirent.
C10_Witness ==
    \E t \in Threads :
        /\ ot[t].op = "lookup"
        /\ ot[t].st = "bypass"
        /\ ot[t].pc = "unlock_done"
        /\ dir[ot[t].d].bypass
        /\ ~DropPending(ot[t].d)
        /\ NoDirents(dir[ot[t].d])

\* ---------------------------------------------------------------------
\* Chunked readdir of one directory (mdcache_readdir_chunked), one caller.
\* The sub-FSAL is cookie based (fso_whence_is_name is not set): it lists
\* its dirents by ascending cookie and a readdir from whence lists the
\* dirents behind that cookie.

SeqToSet(s) == {s[i] : i \in 1..Len(s)}

Max1(S) == CHOOSE x \in S : \A y \in S : y <= x

RECURSIVE SortedSeq(_)
SortedSeq(S) == IF S = {} THEN <<>>
                ELSE <<Min1(S)>> \o SortedSeq(S \ {Min1(S)})

IsPrefix(s, t) == Len(s) <= Len(t) /\ SubSeq(t, 1, Len(s)) = s

\* The dirents on the dirent list of some chunk, DELETED ones included.
Chunked(chunks) == UNION {SeqToSet(chunks[i].dirents) : i \in ChunkIds}

\* dirent->chunk of the chunked dirent with cookie ck, 0 when there is none.
ChunkOf(chunks, ck) ==
    IF ck \in Chunked(chunks)
    THEN CHOOSE i \in ChunkIds : ck \in SeqToSet(chunks[i].dirents)
    ELSE 0

\* The by-cookie tree holds the chunked dirents, DELETED ones included.
mdcache_avl_lookup_ck(c, ck) == ck \in Chunked(c.chunks)

\* A chunk from the chunk LRU: the first struct that is not in use.
mdcache_get_chunk(chunks) ==
    CHOOSE i \in ChunkIds : ~chunks[i].used /\ \A j \in 1..(i - 1) : chunks[j].used

EmptyChunk(prev) ==
    [used |-> TRUE, dirents |-> <<>>, next_ck |-> 0, prev_chunk |-> prev]

\* The head of mdc_readdir_chunk_object: a full chunk in progress is left
\* on the directory's list and a new chunk follows it.
RotateChunk(S) ==
    IF Len(S.chunks[S.cur].dirents) = AvlChunk
    THEN LET new_chunk == mdcache_get_chunk(S.chunks)
         IN [S EXCEPT !.chunks[new_chunk] = EmptyChunk(S.cur),
                      !.cur = new_chunk]
    ELSE S

\* The sub-FSAL's readdir callback for one listed dirent. S carries the
\* chunks, the detached dirents, state->dir_state (cur) and the result.
mdc_readdir_chunk_object(S0, ck, deleted) ==
    LET S == RotateChunk(S0)
        cur == S.cur
        ch == S.chunks[cur]
        linked == IF Len(ch.dirents) = 0 /\ ch.prev_chunk # 0
                  THEN [S.chunks EXCEPT ![ch.prev_chunk].next_ck = ck]
                  ELSE S.chunks
        added == [linked EXCEPT ![cur].dirents = Append(@, ck)]
    IN  IF ck \in deleted
        THEN \* the cookie is in the by-cookie tree: qp_insert fails
             [S EXCEPT !.result = "DIR_CONTINUE"]
        ELSE IF ChunkOf(S.chunks, ck) # 0
        THEN \* the name is in the tree, its dirent on another chunk
             [S EXCEPT !.chunks[cur].next_ck = ck, !.result = "DIR_TERMINATE"]
        ELSE [S EXCEPT !.chunks = added,
                       !.detached = @ \ {ck},
                       !.result = IF Len(added[cur].dirents) = AvlChunk
                                  THEN "DIR_READAHEAD" ELSE "DIR_CONTINUE"]

\* mdcache_populate_dir_chunk behind the sub-FSAL's readdir: an empty
\* chunk in progress is given back, the last dirent of another one is
\* flagged at the end of the directory. The directory afterwards and
\* *dirent (0 for NULL).
PopulateReturn(c, first_chunk, chunk, eod_met) ==
    LET d == c.chunks[chunk].dirents
    IN  [dir |-> [c EXCEPT
                    !.chunks[chunk] = IF Len(d) = 0 THEN NoChunk ELSE @,
                    !.eod = IF Len(d) # 0 /\ eod_met
                            THEN @ \cup {d[Len(d)]} ELSE @],
         dirent |-> IF Len(d) = 0 /\ chunk = first_chunk THEN 0
                    ELSE c.chunks[first_chunk].dirents[1]]

\* mdcache_dirent_invalidate_all on the chunked directory: the chunks and
\* the trees are emptied. Taking the first dirent of the directory out of
\* its chunk clears first_ck.
ChunksInvalidateAll(c) ==
    [c EXCEPT !.chunks = [i \in ChunkIds |-> NoChunk], !.detached = {},
              !.deleted = {}, !.eod = {}, !.populated = FALSE,
              !.trust_content = TRUE, !.trust_chunks = TRUE,
              !.first_ck = IF @ \in Chunked(c.chunks) THEN 0 ELSE @]

\* place_new_dirent clearing the flags at out whatever invalidate_chunks
\* says.
DetachAlt(c, ck, invalidate_chunks) ==
    [c EXCEPT !.detached = @ \cup {ck},
              !.populated = FALSE,
              !.trust_chunks = FALSE]

\* The new dirent stays detached; the chunks are no longer trusted when
\* invalidate_chunks is still set at out.
Detach(c, ck, invalidate_chunks) ==
    [c EXCEPT !.detached = @ \cup {ck},
              !.populated = IF invalidate_chunks THEN FALSE ELSE @,
              !.trust_chunks = IF invalidate_chunks THEN FALSE ELSE @]

\* glist_add_tail(&right->chunk_list, ...): ck goes before right.
InsertBefore(s, ck, right) ==
    LET i == CHOOSE j \in 1..Len(s) : s[j] = right
    IN  SubSeq(s, 1, i - 1) \o <<ck>> \o SubSeq(s, i, Len(s))

\* The tail of place_new_dirent: a chunk that reached avl_chunk_split
\* hands its second half to a new chunk.
SplitChunk(c, chunk) ==
    LET d == c.chunks[chunk].dirents
        split_count == AvlChunkSplit \div 2
        split == mdcache_get_chunk(c.chunks)
    IN  IF Len(d) = AvlChunkSplit
        THEN [c EXCEPT
                !.chunks[split] =
                    [used |-> TRUE,
                     dirents |-> SubSeq(d, split_count + 1, Len(d)),
                     next_ck |-> c.chunks[chunk].next_ck,
                     prev_chunk |-> chunk],
                !.chunks[chunk].dirents = SubSeq(d, 1, split_count),
                !.chunks[chunk].next_ck = d[split_count + 1]]
        ELSE c

\* place_new_dirent(parent_dir, new_dir_entry) for the dirent whose
\* computed cookie is ck. The sorted tree holds the chunked dirents; left
\* and right are the neighbours of ck in it.
place_new_dirent(c, ck) ==
    LET sorted == Chunked(c.chunks)
        lefts == {k \in sorted : k < ck}
        rights == {k \in sorted : k > ck}
        left == IF lefts = {} THEN 0 ELSE Max1(lefts)
        right == IF rights = {} THEN 0 ELSE Min1(rights)
        lchunk == ChunkOf(c.chunks, left)
        rchunk == ChunkOf(c.chunks, right)
        atEnd == [c EXCEPT !.chunks[lchunk].dirents = Append(@, ck),
                           !.eod = (@ \ {left}) \cup {ck}]
        before == [c EXCEPT !.chunks[rchunk].dirents =
                                InsertBefore(@, ck, right)]
        fixed == IF left # 0
                 THEN [before EXCEPT !.chunks[lchunk].next_ck = ck]
                 ELSE [before EXCEPT !.first_ck = ck]
    IN  IF ~c.fso_cookie THEN Detach(c, ck, TRUE)
        ELSE IF ck \in sorted THEN Detach(c, ck, TRUE)
        ELSE IF sorted = {} THEN Detach(c, ck, TRUE)
        ELSE IF left = 0 /\ c.first_ck # right THEN Detach(c, ck, FALSE)
        ELSE IF right = 0 /\ left \notin c.eod THEN Detach(c, ck, FALSE)
        ELSE IF /\ left # 0
                /\ right # 0
                /\ lchunk # rchunk
                /\ lchunk # c.chunks[rchunk].prev_chunk
        THEN Detach(c, ck, FALSE)
        ELSE IF right = 0 THEN SplitChunk(atEnd, lchunk)
        ELSE SplitChunk(fixed, rchunk)

\* mdcache_dirent_add with chunking configured: the name is not in the
\* tree, the new dirent is placed.
ChunkDirentAdd(c, ck) == place_new_dirent(c, ck)

\* mdcache_dirent_remove: a chunked dirent is flagged DELETED and keeps
\* its place, a detached one is freed, an unknown name is left alone.
ChunkDirentRemove(c, ck) ==
    IF ck \in c.detached THEN [c EXCEPT !.detached = @ \ {ck}]
    ELSE IF ck \in Chunked(c.chunks) THEN [c EXCEPT !.deleted = @ \cup {ck}]
    ELSE c

\* The caller's callback takes at most MaxOut dirents in the model.
MaxOut == MaxCookie + 2

RdcIdle == rdc.pc \in {"idle", "done"}

Trusted(c) == c.trust_content /\ c.populated /\ c.trust_chunks

\* mdcache_readdir_chunked up to the label again.
RdcStart(whence) ==
    /\ RdcIdle
    /\ LET c == IF Trusted(cdir) THEN cdir ELSE ChunksInvalidateAll(cdir)
           look_ck == IF whence = 0 THEN c.first_ck ELSE whence
       IN  /\ cdir' = c
           /\ rdc' = [IdleRdc EXCEPT !.pc = "again", !.whence = whence,
                          !.look_ck = look_ck, !.next_ck = whence,
                          !.has_write = ~Trusted(cdir),
                          !.set_first_ck = (whence = 0 /\ look_ck = 0)]
           /\ stable' = IF Trusted(cdir) THEN stable ELSE {}
    /\ UNCHANGED <<fs, nmods>>
    /\ UNCHANGED notChunk

\* again: the cookie is in the by-cookie tree.
RdcFound ==
    /\ rdc.pc = "again"
    /\ rdc.look_ck # 0
    /\ mdcache_avl_lookup_ck(cdir, rdc.look_ck)
    /\ rdc' = [rdc EXCEPT !.pc = "loop", !.dirent = rdc.look_ck,
                          !.chunk = ChunkOf(cdir.chunks, rdc.look_ck)]
    /\ UNCHANGED <<fs, cdir, stable, nmods>>
    /\ UNCHANGED notChunk

\* again: the cookie is not cached and the lock is held for read.
RdcUpgrade ==
    /\ rdc.pc = "again"
    /\ rdc.look_ck = 0 \/ ~mdcache_avl_lookup_ck(cdir, rdc.look_ck)
    /\ ~rdc.has_write
    /\ rdc' = [rdc EXCEPT !.has_write = TRUE]
    /\ UNCHANGED <<fs, cdir, stable, nmods>>
    /\ UNCHANGED notChunk

\* again: the cookie is not cached. mdcache_populate_dir_chunk takes a
\* chunk and calls the sub-FSAL's readdir from next_ck.
RdcPopulate ==
    /\ rdc.pc = "again"
    /\ rdc.look_ck = 0 \/ ~mdcache_avl_lookup_ck(cdir, rdc.look_ck)
    /\ rdc.has_write
    /\ LET first_chunk == mdcache_get_chunk(cdir.chunks)
       IN  /\ cdir' = [cdir EXCEPT
                          !.chunks[first_chunk] = EmptyChunk(rdc.chunk)]
           /\ rdc' = [rdc EXCEPT !.pc = "fsal", !.first_chunk = first_chunk,
                          !.cur = first_chunk, !.pos = rdc.next_ck,
                          !.eod = FALSE]
    /\ UNCHANGED <<fs, stable, nmods>>
    /\ UNCHANGED notChunk

\* The dirents the sub-FSAL's readdir has not listed yet.
Unlisted == {k \in fs : k > rdc.pos}

\* The sub-FSAL's readdir hands its next dirent to the callback. After
\* DIR_READAHEAD it goes on when ra is set; when it stops there at its
\* last dirent it reports the end of the directory when eodrep is set.
FsalCallback(ra, eodrep) ==
    /\ rdc.pc = "fsal"
    /\ Unlisted # {}
    /\ LET ck == Min1(Unlisted)
           S == mdc_readdir_chunk_object(
                    [chunks |-> cdir.chunks, detached |-> cdir.detached,
                     cur |-> rdc.cur, result |-> "DIR_CONTINUE"],
                    ck, cdir.deleted)
           goes_on == \/ S.result = "DIR_CONTINUE"
                      \/ S.result = "DIR_READAHEAD" /\ ra
       IN  /\ cdir' = [cdir EXCEPT !.chunks = S.chunks,
                                   !.detached = S.detached]
           /\ rdc' = [rdc EXCEPT
                         !.pc = IF goes_on THEN "fsal" ELSE "fsal_ret",
                         !.cur = S.cur, !.pos = ck,
                         !.eod = /\ S.result = "DIR_READAHEAD"
                                 /\ ~ra
                                 /\ Unlisted = {ck}
                                 /\ eodrep]
    /\ UNCHANGED <<fs, stable, nmods>>
    /\ UNCHANGED notChunk

\* The sub-FSAL's readdir has listed its last dirent and reports the end
\* of the directory.
FsalEod ==
    /\ rdc.pc = "fsal"
    /\ Unlisted = {}
    /\ rdc' = [rdc EXCEPT !.pc = "fsal_ret", !.eod = TRUE]
    /\ UNCHANGED <<fs, cdir, stable, nmods>>
    /\ UNCHANGED notChunk

\* The sub-FSAL's readdir has returned: the rest of
\* mdcache_populate_dir_chunk and what mdcache_readdir_chunked does with
\* the dirent it gets.
RdcPopulated ==
    /\ rdc.pc = "fsal_ret"
    /\ LET P == PopulateReturn(cdir, rdc.first_chunk, rdc.cur, rdc.eod)
       IN  IF P.dirent = 0
           THEN /\ cdir' = [P.dir EXCEPT !.populated =
                                IF rdc.whence = 0 THEN TRUE ELSE @]
                /\ rdc' = RdcReturn(rdc, "DIR_CONTINUE", rdc.out, TRUE)
           ELSE /\ cdir' = [P.dir EXCEPT
                                !.populated = (rdc.whence = 0 /\ rdc.eod),
                                !.first_ck = IF rdc.set_first_ck
                                             THEN P.dirent ELSE @]
                /\ rdc' = [rdc EXCEPT !.pc = "loop",
                               !.dirent = P.dirent,
                               !.chunk = ChunkOf(P.dir.chunks, P.dirent),
                               !.set_first_ck = FALSE,
                               !.first_chunk = 0, !.cur = 0, !.pos = 0]
    /\ UNCHANGED <<fs, stable, nmods>>
    /\ UNCHANGED notChunk

\* glist_next_entry on the dirents of the chunk, 0 behind the last one.
NextDirent(c, chunk, ck) ==
    LET d == c.chunks[chunk].dirents
        i == CHOOSE j \in 1..Len(d) : d[j] = ck
    IN  IF i < Len(d) THEN d[i + 1] ELSE 0

\* *eod_met where the loop of mdcache_readdir_chunked stops: the
\* variant takes the dirent's mark alone.
EodMetAlt(cb_result, eod) == eod

\* *eod_met = cb_result != DIR_TERMINATE && dirent->eod.
EodMet(cb_result, eod) == cb_result # "DIR_TERMINATE" /\ eod

\* One pass of the loop over the dirents of the chunk; the caller's
\* callback answers cb_result.
RdcDirent(cb_result) ==
    /\ rdc.pc = "loop"
    /\ rdc.dirent # 0
    /\ Len(rdc.out) < MaxOut
    /\ LET ck == rdc.dirent
           next == NextDirent(cdir, rdc.chunk, ck)
       IN  IF ck = rdc.whence \/ ck \in cdir.deleted
           THEN /\ rdc' = [rdc EXCEPT !.dirent = next]
                /\ UNCHANGED <<cdir, stable>>
           ELSE IF cb_result = "DIR_TERMINATE"
           THEN /\ rdc' = RdcReturn(rdc, cb_result, rdc.out,
                                      EodMet(cb_result, ck \in cdir.eod))
                /\ cdir' = [cdir EXCEPT !.populated =
                                IF /\ EodMet(cb_result, ck \in cdir.eod)
                                   /\ rdc.whence = 0
                                THEN TRUE ELSE @]
                /\ UNCHANGED stable
           ELSE IF ck \in cdir.eod
           THEN /\ rdc' = RdcReturn(rdc, cb_result, Append(rdc.out, ck),
                                      EodMet(cb_result, TRUE))
                /\ cdir' = [cdir EXCEPT !.populated =
                                IF rdc.whence = 0 THEN TRUE ELSE @]
                /\ stable' = stable \cup {ck}
           ELSE /\ rdc' = [rdc EXCEPT !.dirent = next, !.next_ck = ck,
                               !.out = Append(@, ck)]
                /\ stable' = stable \cup {ck}
                /\ UNCHANGED cdir
    /\ UNCHANGED <<fs, nmods>>
    /\ UNCHANGED notChunk

\* Behind the loop: on to the chunk that next_ck names, or to populating.
RdcNextChunk ==
    /\ rdc.pc = "loop"
    /\ rdc.dirent = 0
    /\ rdc' = [rdc EXCEPT !.pc = "again",
                          !.look_ck = cdir.chunks[rdc.chunk].next_ck]
    /\ UNCHANGED <<fs, cdir, stable, nmods>>
    /\ UNCHANGED notChunk

\* mdcache_create in the directory, between two readdirs: the sub-FSAL
\* creates the dirent and mdcache_dirent_add caches it. The locals of the
\* readdir that returned are gone.
ChunkCreate(ck) ==
    /\ RdcIdle
    /\ nmods < MaxMods
    /\ nmods' = nmods + 1
    /\ ck \notin fs
    /\ fs' = fs \cup {ck}
    /\ cdir' = ChunkDirentAdd(cdir, ck)
    /\ rdc' = IdleRdc
    /\ UNCHANGED stable
    /\ UNCHANGED notChunk

\* mdcache_unlink in the directory, between two readdirs.
ChunkUnlink(ck) ==
    /\ RdcIdle
    /\ nmods < MaxMods
    /\ nmods' = nmods + 1
    /\ ck \in fs
    /\ fs' = fs \ {ck}
    /\ cdir' = ChunkDirentRemove(cdir, ck)
    /\ rdc' = IdleRdc
    /\ UNCHANGED stable
    /\ UNCHANGED notChunk

\* The directory holds any set of dirents when it is first cached; its
\* sub-FSAL computes readdir cookies or not.
InitChunk ==
    /\ InitCacheIdle
    /\ InitExtraIdle
    /\ InitSdlIdle
    /\ InitOpsIdle
    /\ content_lock = [e \in Entries |-> FreeLock]
    /\ attr_lock = [e \in CEntries |-> FreeLock]
    /\ fs \in SUBSET Cookies
    /\ \E b \in BOOLEAN : cdir = [NewChunkDir EXCEPT !.fso_cookie = b]
    /\ rdc = IdleRdc
    /\ stable = {}
    /\ nmods = 0

NextChunk ==
    \/ \E whence \in 0..MaxCookie : RdcStart(whence)
    \/ RdcFound
    \/ RdcUpgrade
    \/ RdcPopulate
    \/ \E ra \in BOOLEAN, eodrep \in BOOLEAN : FsalCallback(ra, eodrep)
    \/ FsalEod
    \/ RdcPopulated
    \/ \E cb_result \in {"DIR_CONTINUE", "DIR_TERMINATE"} :
           RdcDirent(cb_result)
    \/ RdcNextChunk
    \/ \E ck \in Cookies : ChunkCreate(ck)
    \/ \E ck \in Cookies : ChunkUnlink(ck)

SpecChunk == InitChunk /\ [][NextChunk]_vars

\* C7: a readdir from cookie 0 whose callback always continues hands the
\* callback every dirent of the sub-FSAL listing exactly once and in the
\* listing's order, and returns with eod_met set.
C7_Original ==
    (rdc.whence = 0 /\ rdc.cb_result = "DIR_CONTINUE" /\ rdc.pc # "idle") =>
        /\ IsPrefix(rdc.out, SortedSeq(fs))
        /\ rdc.pc = "done" => (rdc.out = SortedSeq(fs) /\ rdc.eod_met)

\* C8: a readdir from a cookie that an earlier readdir returned and whose
\* chunk has stayed resident hands the callback exactly the dirents the
\* directory holds behind that cookie, in order.
C8_Original ==
    (rdc.whence \in stable /\ rdc.cb_result = "DIR_CONTINUE"
        /\ rdc.pc # "idle") =>
        /\ IsPrefix(rdc.out, SortedSeq({k \in fs : k > rdc.whence}))
        /\ rdc.pc = "done" =>
               rdc.out = SortedSeq({k \in fs : k > rdc.whence})

(* ------------------------------------------------------------------ *)
(* The dirent round trip on one directory: mdcache_dirent_add,         *)
(* mdcache_dirent_remove, mdc_try_get_cached, mdcache_dirent_find      *)
(* ------------------------------------------------------------------ *)
notRt == <<content_lock, attr_lock, sdlVars, cacheOwn, opsOwn, chunkOwn, pl, mu,
           cs,
           parts>>

\* trust_negative_cache(parent)
TrustNegativeCacheAlt(r) == r.neg_opt /\ r.icreate_refcnt = 0
TrustNegativeCache(r) ==
    r.neg_opt /\ r.icreate_refcnt = 0 /\ r.populated

\* mdc_dircache_trusted(dir)
mdc_dircache_trusted(r) == r.trust_content /\ r.populated

\* mdc_try_get_cached(mdc_parent, name, &entry): the status, and the key of
\* the entry handed back.
mdc_try_get_cached(r, n) ==
    IF r.bypass THEN [status |-> "STALE", key |-> 0]
    ELSE IF ~r.trust_content THEN [status |-> "STALE", key |-> 0]
    ELSE IF r.tree[n] # 0
    THEN IF r.tree[n] \in r.cached
         THEN [status |-> "OK", key |-> r.tree[n]]
         ELSE [status |-> "STALE", key |-> 0]
    ELSE IF TrustNegativeCache(r) THEN [status |-> "NOENT", key |-> 0]
    ELSE [status |-> "STALE", key |-> 0]

\* mdcache_dirent_find(dir, name, &dirent): the status, and the child key
\* of the dirent handed back (0 for NULL).
mdcache_dirent_find(r, n) ==
    IF \A m \in RtNames : r.tree[m] = 0
    THEN IF mdc_dircache_trusted(r) THEN [status |-> "NOENT", key |-> 0]
         ELSE [status |-> "NO_ERROR", key |-> 0]
    ELSE IF r.tree[n] = 0
    THEN IF mdc_dircache_trusted(r) THEN [status |-> "NOENT", key |-> 0]
         ELSE [status |-> "NO_ERROR", key |-> 0]
    ELSE [status |-> "NO_ERROR", key |-> r.tree[n]]

\* mdcache_dirent_add(parent, name, entry): nothing for a directory that is
\* not cached; mdcache_avl_qp_insert hands back the dirent the name has
\* already, or fails on a name that stands for another key.
RtAdd(r, n, k) ==
    IF r.bypass THEN r
    ELSE IF r.tree[n] # 0 THEN r
    ELSE [r EXCEPT !.tree[n] = k, !.ins[n] = k, !.rem[n] = FALSE]

\* mdcache_dirent_remove(parent, name): avl_dirent_set_deleted takes the
\* dirent that mdcache_dirent_find found out of the by-name index.
RtRemove(r, n) ==
    IF r.bypass THEN r
    ELSE IF mdcache_dirent_find(r, n).key = 0 THEN r
    ELSE [r EXCEPT !.tree[n] = 0, !.ins[n] = 0, !.rem[n] = TRUE]

\* mdcache_dirent_invalidate_all(entry): every dirent goes, the histories
\* of the names with them.
RtInvalidateAll(r) ==
    [r EXCEPT !.tree = [n \in RtNames |-> 0], !.populated = FALSE,
              !.trust_content = TRUE,
              !.ins = [n \in RtNames |-> 0],
              !.rem = [n \in RtNames |-> FALSE]]

RECURSIVE RtPopulateLoop(_, _, _)
RtPopulateLoop(r, listing, todo) ==
    IF todo = {} THEN r
    ELSE LET n == Min1(todo)
         IN  RtPopulateLoop(IF listing[n] = 0 THEN r
                            ELSE RtAdd(r, n, listing[n]),
                            listing, todo \ {n})

\* mdcache_dirent_populate(dir): nothing when the directory is populated
\* and trusted; else the dirents are dropped, the sub-FSAL's listing is
\* added and, at eod, MDCACHE_DIR_POPULATED is set.
RtDirentPopulate(r, listing, eod) ==
    IF r.populated /\ r.trust_content THEN r
    ELSE LET filled == RtPopulateLoop(RtInvalidateAll(r), listing, RtNames)
         IN  [filled EXCEPT !.populated = eod]

Touched(r) == [r EXCEPT !.last = NoLookup]

\* A create, lookup or link caches the dirent of name n for the child k.
RtDirentAdd(n, k) ==
    /\ rt' = Touched(RtAdd(rt, n, k))
    /\ UNCHANGED notRt

\* An unlink drops the dirent of name n.
RtDirentRemove(n) ==
    /\ rt' = Touched(RtRemove(rt, n))
    /\ UNCHANGED notRt

\* A readdir of the whole directory without chunking.
RtPopulate(listing, eod) ==
    /\ ~rt.bypass
    /\ rt' = Touched(RtDirentPopulate(rt, listing, eod))
    /\ UNCHANGED notRt

\* mdcache_dirent_rename on the parent of this directory, whose newname
\* stood for it: the overwritten entry loses MDCACHE_TRUST_CONTENT and
\* MDCACHE_DIR_POPULATED.
RtUntrust ==
    /\ rt' = Touched([rt EXCEPT !.trust_content = FALSE,
                                !.populated = FALSE])
    /\ UNCHANGED notRt

\* mdc_lookup on a directory whose content is not trusted, a rename with
\* chunking: mdcache_dirent_invalidate_all.
RtInvalidate ==
    /\ rt' = Touched(RtInvalidateAll(rt))
    /\ UNCHANGED notRt

\* mdcache_readdir on ERR_FSAL_OVERFLOW: MDCACHE_BYPASS_DIRCACHE is set and
\* the dirents are dropped.
RtOverflow ==
    /\ ~rt.bypass
    /\ rt' = Touched([RtInvalidateAll(rt) EXCEPT !.bypass = TRUE])
    /\ UNCHANGED notRt

\* The child of key k enters the hash table (mdcache_new_entry) or leaves
\* it (mdcache_kill_entry, the LRU).
RtChild(k) ==
    /\ rt' = Touched([rt EXCEPT !.cached =
                        IF k \in @ THEN @ \ {k} ELSE @ \cup {k}])
    /\ UNCHANGED notRt

\* An open with create in the directory begins or ends.
RtIcreate ==
    /\ rt' = Touched([rt EXCEPT !.icreate_refcnt = 1 - @])
    /\ UNCHANGED notRt

\* A cached lookup of name n; the directory is as it was.
RtLookup(n) ==
    /\ rt' = [rt EXCEPT !.last =
                [op |-> "mdc_try_get_cached", n |-> n,
                 status |-> mdc_try_get_cached(rt, n).status,
                 key |-> mdc_try_get_cached(rt, n).key]]
    /\ UNCHANGED notRt

RtFind(n) ==
    /\ rt' = [rt EXCEPT !.last =
                [op |-> "mdcache_dirent_find", n |-> n,
                 status |-> mdcache_dirent_find(rt, n).status,
                 key |-> mdcache_dirent_find(rt, n).key]]
    /\ UNCHANGED notRt

RtListings == [RtNames -> 0..NumCKeys]

InitRt ==
    /\ InitCacheIdle
    /\ InitSdlIdle
    /\ InitOpsIdle
    /\ InitChunkIdle
    /\ content_lock = [e \in Entries |-> FreeLock]
    /\ attr_lock = [e \in CEntries |-> FreeLock]
    /\ pl = IdlePl
    /\ mu = IdleMu
    /\ cs = IdleCs
    /\ parts = IdleParts
    /\ \E b \in BOOLEAN : rt = [IdleRt EXCEPT !.neg_opt = b]

NextRt ==
    \/ \E n \in RtNames, k \in CKeys : RtDirentAdd(n, k)
    \/ \E n \in RtNames : RtDirentRemove(n)
    \/ \E listing \in RtListings, eod \in BOOLEAN : RtPopulate(listing, eod)
    \/ RtUntrust
    \/ RtInvalidate
    \/ RtOverflow
    \/ \E k \in CKeys : RtChild(k)
    \/ RtIcreate
    \/ \E n \in RtNames : RtLookup(n)
    \/ \E n \in RtNames : RtFind(n)

SpecRt == InitRt /\ [][NextRt]_vars

notPl == <<content_lock, attr_lock, sdlVars, cacheOwn, opsOwn, chunkOwn, rt, mu,
           cs,
           parts>>

SubStatus == {"OK", "NOENT", "STALE"}

\* mdcache_kill_entry(entry): cih_remove_checked takes the entry out of the
\* hash table when it is there.
PlKillEntry(q, e) == [q EXCEPT !.hash = IF @ = e THEN 0 ELSE @]

PlLock(q, e, t, wr) ==
    [q EXCEPT !.lock[e] = IF wr THEN WrLocked(@, t) ELSE RdLocked(@, t)]
PlUnlock(q, e, t) == [q EXCEPT !.lock[e] = Unlocked(@, t)]

\* mdcache_locate_host(fh_desc, ...): mdcache_find_keyed hits the entry of
\* the key; on a miss create_handle and mdcache_new_entry make a new one.
PlLocate(t, created) ==
    /\ pl.t[t].pc = "idle"
    /\ IF pl.hash # 0
       THEN pl' = [pl EXCEPT !.t[t].pc = "have", !.t[t].e = pl.hash]
       ELSE IF created
       THEN /\ pl.nalloc < MaxPEntries
            /\ pl' = [pl EXCEPT !.nalloc = @ + 1, !.hash = pl.nalloc + 1,
                                !.t[t].pc = "have",
                                !.t[t].e = pl.nalloc + 1]
       ELSE pl' = pl
    /\ UNCHANGED notPl

\* The protocol layer calls lookup or create on the handle it holds.
PlCall(t, op) ==
    /\ pl.t[t].pc = "have"
    /\ pl' = [pl EXCEPT !.t[t].op = op,
                        !.t[t].pc = IF op = "lookup" THEN "lk_rdlock"
                                    ELSE "cr_sub"]
    /\ UNCHANGED notPl

\* mdc_lookup: PTHREAD_RWLOCK_rdlock(&mdc_parent->content_lock)
PlRdlock(t) ==
    /\ pl.t[t].pc = "lk_rdlock"
    /\ CanRdLock(pl.lock[pl.t[t].e])
    /\ pl' = [PlLock(pl, pl.t[t].e, t, FALSE) EXCEPT !.t[t].pc = "lk_try"]
    /\ UNCHANGED notPl

\* mdc_lookup: mdc_try_get_cached; on STALE under the read lock, unlock to
\* try again under the write lock; on success unlock and return; on STALE
\* under the write lock go on to the sub-FSAL.
PlTry(t, st) ==
    /\ pl.t[t].pc = "lk_try"
    /\ pl' = IF st = "STALE" /\ ~pl.t[t].has_write
             THEN [PlUnlock(pl, pl.t[t].e, t) EXCEPT
                        !.t[t].pc = "lk_wrlock"]
             ELSE IF st = "OK"
             THEN [PlUnlock(pl, pl.t[t].e, t) EXCEPT
                        !.t[t].pc = "done", !.t[t].st = "OK"]
             ELSE IF st = "NOENT"
             THEN [pl EXCEPT !.t[t].pc = "lk_out", !.t[t].st = "NOENT"]
             ELSE [pl EXCEPT !.t[t].pc = "lk_uncached"]
    /\ UNCHANGED notPl

PlWrlock(t) ==
    /\ pl.t[t].pc = "lk_wrlock"
    /\ CanWrLock(pl.lock[pl.t[t].e])
    /\ pl' = [PlLock(pl, pl.t[t].e, t, TRUE) EXCEPT
                    !.t[t].pc = "lk_try", !.t[t].has_write = TRUE]
    /\ UNCHANGED notPl

\* mdc_lookup_uncached: the sub-FSAL lookup; its error is handed back as
\* it is.
PlUncached(t, sub) ==
    /\ pl.t[t].pc = "lk_uncached"
    /\ pl' = [pl EXCEPT !.t[t].pc = "lk_out", !.t[t].sub = sub,
                        !.t[t].st = sub]
    /\ UNCHANGED notPl

\* mdc_lookup, out: the content lock is released and ERR_FSAL_STALE
\* becomes ERR_FSAL_NOENT.
PlOut(t) ==
    /\ pl.t[t].pc = "lk_out"
    /\ pl' = [PlUnlock(pl, pl.t[t].e, t) EXCEPT
                !.t[t].pc = "done",
                !.t[t].st = IF @ = "STALE" THEN "NOENT" ELSE @]
    /\ UNCHANGED notPl

\* mdcache_create: the sub-FSAL create; on ERR_FSAL_STALE the parent is
\* killed and the error returned, else the content lock is taken.
PlCreateSub(t, sub) ==
    /\ pl.t[t].pc = "cr_sub"
    /\ pl' = IF sub = "STALE"
             THEN [PlKillEntry(pl, pl.t[t].e) EXCEPT
                        !.t[t].pc = "done", !.t[t].sub = sub,
                        !.t[t].st = sub]
             ELSE IF sub # "OK"
             THEN [pl EXCEPT !.t[t].pc = "done", !.t[t].sub = sub,
                             !.t[t].st = sub]
             ELSE [pl EXCEPT !.t[t].pc = "cr_wrlock", !.t[t].sub = sub]
    /\ UNCHANGED notPl

\* mdcache_create: PTHREAD_RWLOCK_wrlock(&parent->content_lock)
PlCreateLock(t) ==
    /\ pl.t[t].pc = "cr_wrlock"
    /\ CanWrLock(pl.lock[pl.t[t].e])
    /\ pl' = [PlLock(pl, pl.t[t].e, t, TRUE) EXCEPT !.t[t].pc = "cr_add"]
    /\ UNCHANGED notPl

\* mdcache_create: mdcache_alloc_and_check_handle, then the unlock.
PlCreateAdd(t) ==
    /\ pl.t[t].pc = "cr_add"
    /\ pl' = [PlUnlock(pl, pl.t[t].e, t) EXCEPT
                !.t[t].pc = "done", !.t[t].st = "OK"]
    /\ UNCHANGED notPl

\* The protocol layer is done with the call and puts the entry.
PlPut(t) ==
    /\ pl.t[t].pc = "done"
    /\ pl' = [pl EXCEPT !.t[t] = IdlePlThread]
    /\ UNCHANGED notPl

InitPl ==
    /\ InitCacheIdle
    /\ InitSdlIdle
    /\ InitOpsIdle
    /\ InitChunkIdle
    /\ InitExtraIdle
    /\ content_lock = [e \in Entries |-> FreeLock]
    /\ attr_lock = [e \in CEntries |-> FreeLock]

NextPl ==
    \E t \in Threads :
        \/ \E created \in BOOLEAN : PlLocate(t, created)
        \/ \E op \in {"lookup", "create"} : PlCall(t, op)
        \/ PlRdlock(t)
        \/ \E st \in SubStatus : PlTry(t, st)
        \/ PlWrlock(t)
        \/ \E sub \in SubStatus : PlUncached(t, sub)
        \/ PlOut(t)
        \/ \E sub \in SubStatus : PlCreateSub(t, sub)
        \/ PlCreateLock(t)
        \/ PlCreateAdd(t)
        \/ PlPut(t)

SpecPl == InitPl /\ [][NextPl]_vars

\* C12: when the sub-FSAL lookup of a lookup on P gave ERR_FSAL_STALE and
\* the lookup has returned, P's content lock is released and P's entry is
\* no longer the one in the hash table, so that the next resolution of P's
\* handle makes a distinct entry.
C12_Original ==
    \A t \in Threads :
        (pl.t[t].pc = "done" /\ pl.t[t].op = "lookup"
            /\ pl.t[t].sub = "STALE") =>
                /\ ~HoldsWr(pl.lock[pl.t[t].e], t)
                /\ pl.hash # pl.t[t].e

(* ------------------------------------------------------------------ *)
(* What rename, unlink, create and the attribute refresh do to the     *)
(* cache: mdcache_rename, mdcache_unlink, mdcache_create,              *)
(* mdcache_refresh_attrs                                               *)
(* ------------------------------------------------------------------ *)
notMu == <<content_lock, attr_lock, sdlVars, cacheOwn, opsOwn, chunkOwn, rt,
           pl, cs,
           parts>>

\* mdcache_dirent_remove(parent, name)
MuDirentRemove(r, n, chunked) ==
    IF r.bypass \/ r.tree[n] = 0 THEN r
    ELSE [r EXCEPT !.tree[n] = 0,
                   !.deleted = IF chunked THEN @ \cup {n} ELSE @]

\* mdcache_dirent_invalidate_all(entry)
MuInvalidateAll(r) ==
    [r EXCEPT !.tree = [n \in MuNames |-> 0], !.deleted = {},
              !.populated = FALSE, !.trust_content = TRUE,
              !.trust_chunks = TRUE]

\* mdcache_dirent_add(parent, name, entry, &invalidate); where
\* place_new_dirent puts the dirent is the matter of the chunk machine.
MuDirentAdd(r, n, c) ==
    IF r.bypass \/ r.tree[n] # 0 THEN r
    ELSE [r EXCEPT !.tree[n] = c, !.deleted = @ \ {n}]

\* mdc_try_get_cached(dir, name, &entry) as mdcache_rename uses it: the
\* entry found, or 0 on any error.
MuTryGetCached(ent, d, n) ==
    IF ent[d].bypass \/ ~ent[d].trust_content THEN 0
    ELSE IF ent[d].tree[n] # 0 /\ ent[ent[d].tree[n]].hashed
    THEN ent[d].tree[n]
    ELSE 0

\* mdcache_dirent_rename(parent, oldname, newname) without chunking: the
\* entries and the status.
MuDirentRename(ent, d, n, n2) ==
    LET r == ent[d]
        trusted == r.trust_content /\ r.populated
        old == r.tree[n2]
        moved == [ent EXCEPT ![d].tree[n2] = r.tree[n], ![d].tree[n] = 0]
    IN  IF r.bypass THEN [ent |-> ent, status |-> "OK"]
        ELSE IF r.tree[n] = 0
        THEN [ent |-> ent, status |-> IF trusted THEN "NOENT" ELSE "OK"]
        ELSE IF old # 0
        THEN IF r.trust_content
             THEN [ent |-> IF ent[old].hashed
                           THEN [moved EXCEPT ![old].trust_attrs = FALSE,
                                              ![old].trust_content = FALSE,
                                              ![old].populated = FALSE]
                           ELSE moved,
                   status |-> "OK"]
             ELSE [ent |-> ent, status |-> "EXIST"]
        ELSE [ent |-> moved, status |-> "OK"]

\* mdcache_rename behind the unlock label: mdcache_src_dest_unlock, the
\* refresh of the destination directory, and the parent handle of a
\* directory that has another parent directory now.
MuRenameTail(ent, obj, d, d2, refresh) ==
    LET e1 == IF refresh THEN [ent EXCEPT ![d2].trust_attrs = TRUE] ELSE ent
    IN  IF d # d2 /\ e1[obj].type = "DIRECTORY"
        THEN [e1 EXCEPT ![obj].parent = d2]
        ELSE e1

\* What mdcache_rename does with changes_key set, from the removal of the
\* old dirent on.
MuRenameKeyAlt(ent, obj, d, n, d2, chunked) ==
    [ent EXCEPT ![d] = MuDirentRemove(@, n, chunked),
                ![obj].unreachable = TRUE]
MuRenameKey(ent, obj, d, n, d2, chunked) ==
    LET e1 == [ent EXCEPT ![d] = MuDirentRemove(@, n, chunked)]
        e2 == [e1 EXCEPT ![d2] = MuInvalidateAll(@)]
    IN  [e2 EXCEPT ![obj].unreachable = TRUE]

\* mdcache_rename(obj, olddir d, old_name n, newdir d2, new_name n2): the
\* entries, the status and the destination found.  sub is the status of
\* the sub-FSAL rename.
MuRename(ent, obj, d, n, d2, n2, sub, changes_key, chunked) ==
    LET dst == MuTryGetCached(ent, d2, n2)
        a1 == [e \in MuEnts |->
                IF e \in {obj, d, d2} \/ (dst # 0 /\ e = dst)
                THEN [ent[e] EXCEPT !.trust_attrs = FALSE] ELSE ent[e]]
        a2 == IF dst = 0 THEN a1
              ELSE [a1 EXCEPT ![d2] = MuDirentRemove(@, n2, chunked),
                              ![dst].unreachable = TRUE]
        same == MuDirentRename(a2, d2, n, n2)
        sameEnt == IF same.status = "OK" THEN same.ent
                   ELSE [same.ent EXCEPT ![d2] = MuInvalidateAll(@)]
        m1 == [a2 EXCEPT ![d] = MuDirentRemove(@, n, chunked)]
        m2 == [m1 EXCEPT ![d2] = MuDirentAdd(
                    MuDirentRemove(@, n2, chunked), n2, obj)]
        Ret(e, st, refresh) ==
            [ent |-> MuRenameTail(e, obj, d, d2, refresh), status |-> st,
             dst |-> dst]
    IN  IF dst # 0 /\ dst = obj THEN Ret(ent, "OK", FALSE)
        ELSE IF dst # 0 /\ ent[dst].junction THEN Ret(ent, "XDEV", FALSE)
        ELSE IF sub # "OK" THEN Ret(ent, sub, FALSE)
        ELSE IF changes_key
        THEN Ret(MuRenameKey(a2, obj, d, n, d2, chunked), "OK", FALSE)
        ELSE IF d = d2 /\ ~chunked
        THEN Ret(sameEnt, IF same.status = "NOENT" THEN "OK"
                          ELSE same.status, FALSE)
        ELSE IF m1[d2].bypass THEN Ret(m1, "OK", FALSE)
        ELSE Ret(m2, "OK", chunked)

\* What mdcache_unlink does once the sub-FSAL unlink succeeded.
MuUnlinkDoneAlt(ent, obj, d, n, chunked) ==
    [ent EXCEPT ![d] = [MuDirentRemove(@, n, chunked) EXCEPT
                            !.trust_attrs = FALSE],
                ![obj].trust_attrs = FALSE,
                ![obj].parent = IF ent[obj].type = "DIRECTORY" THEN 0 ELSE @]
MuUnlinkDone(ent, obj, d, n, chunked) ==
    [ent EXCEPT ![d] = [MuDirentRemove(@, n, chunked) EXCEPT
                            !.trust_attrs = FALSE],
                ![obj].trust_attrs = FALSE,
                ![obj].parent = IF ent[obj].type = "DIRECTORY" THEN 0 ELSE @,
                ![obj].unreachable = TRUE]

\* mdcache_unlink(dir d, obj, name n); sub is the status of the sub-FSAL
\* unlink.
MuUnlink(ent, obj, d, n, sub, chunked) ==
    IF ent[obj].junction THEN [ent |-> ent, status |-> "XDEV"]
    ELSE IF sub = "STALE"
    THEN [ent |-> [ent EXCEPT ![d].hashed = FALSE], status |-> sub]
    ELSE IF sub = "NOTEMPTY" /\ ent[obj].type = "DIRECTORY"
    THEN [ent |-> [ent EXCEPT ![obj] = MuInvalidateAll(@)], status |-> sub]
    ELSE IF sub # "OK" THEN [ent |-> ent, status |-> sub]
    ELSE [ent |-> MuUnlinkDone(ent, obj, d, n, chunked), status |-> "OK"]

\* gsh_time_cmp(&oldmtime, &entry->attrs.mtime) < 0
MtimeLaterAlt(oldmtime, mtime) == oldmtime # mtime
MtimeLater(oldmtime, mtime) == oldmtime < mtime

\* mdcache_refresh_attrs(entry, need_acl, invalidate): whether the dirents
\* are to be invalidated.
RefreshInvalidates(r, invalidate, mtime) ==
    invalidate /\ r.type = "DIRECTORY" /\ MtimeLater(r.mtime, mtime)

\* mdcache_create(dir d, name n) for the object c, after the sub-FSAL
\* create succeeded: mdcache_alloc_and_check_handle under the content
\* lock, then the refresh of the parent when the dirent went into the
\* chunks.
MuCreate(ent, d, n, c, chunked) ==
    LET e1 == [ent EXCEPT ![c].hashed = TRUE, ![c].unreachable = FALSE,
                          ![d].trust_attrs = FALSE]
        e2 == [e1 EXCEPT ![d] = MuDirentAdd(@, n, c)]
        added == ~e1[d].bypass /\ e1[d].tree[n] = 0
        e3 == IF e2[c].type = "DIRECTORY" /\ (e1[d].bypass \/ added
                                              \/ e1[d].tree[n] = c)
              THEN [e2 EXCEPT ![c].parent = d] ELSE e2
    IN  IF added /\ chunked THEN [e3 EXCEPT ![d].trust_attrs = TRUE] ELSE e3

MuCalled(e, call) ==
    mu' = [mu EXCEPT !.ent = e, !.pre = mu.ent, !.last = call,
                     !.nops = @ + 1]
MuReady == mu.pc = "idle" /\ mu.nops < MaxMuOps

MuCreateCall(d, n, c) ==
    /\ MuReady
    /\ MuCalled(MuCreate(mu.ent, d, n, c, mu.chunking),
                [NoMuCall EXCEPT !.op = "create", !.status = "OK",
                                 !.sub = "OK", !.obj = c, !.d = d, !.n = n])
    /\ UNCHANGED notMu

MuRenameCall(d, n, d2, n2, sub, changes_key) ==
    /\ MuReady
    /\ LET res == MuRename(mu.ent, MuObj, d, n, d2, n2, sub, changes_key,
                           mu.chunking)
       IN  MuCalled(res.ent,
                [NoMuCall EXCEPT !.op = "rename", !.status = res.status,
                     !.sub = sub, !.obj = MuObj, !.d = d, !.n = n,
                     !.d2 = d2, !.n2 = n2, !.changes_key = changes_key,
                     !.dst = res.dst])
    /\ UNCHANGED notMu

MuUnlinkCall(d, n, sub) ==
    /\ MuReady
    /\ LET res == MuUnlink(mu.ent, MuObj, d, n, sub, mu.chunking)
       IN  MuCalled(res.ent,
                [NoMuCall EXCEPT !.op = "unlink", !.status = res.status,
                     !.sub = sub, !.obj = MuObj, !.d = d, !.n = n])
    /\ UNCHANGED notMu

\* mdcache_refresh_attrs up to the invalidation: on an error of the
\* sub-FSAL getattrs nothing is changed, else the attributes are replaced;
\* when the dirents are to go, PTHREAD_RWLOCK_wrlock(&entry->content_lock).
MuRefresh(e, invalidate, sub, mtime) ==
    /\ MuReady
    /\ LET inval == sub = "OK"
                      /\ RefreshInvalidates(mu.ent[e], invalidate, mtime)
           call == [NoMuCall EXCEPT !.op = "refresh", !.status = sub,
                        !.sub = sub, !.obj = e, !.invalidate = invalidate]
       IN  IF sub # "OK" THEN MuCalled(mu.ent, call)
           ELSE mu' = [mu EXCEPT !.ent[e].mtime = mtime,
                                 !.ent[e].trust_attrs = TRUE,
                                 !.ent[e].wlock = inval,
                                 !.pre = mu.ent, !.last = call,
                                 !.nops = @ + 1,
                                 !.pc = IF inval THEN "inval" ELSE "idle"]
    /\ UNCHANGED notMu

\* mdcache_refresh_attrs: mdcache_dirent_invalidate_all(entry) and the
\* unlock.
MuRefreshInval ==
    /\ mu.pc = "inval"
    /\ LET e == mu.last.obj
       IN  mu' = [mu EXCEPT !.ent[e] = [MuInvalidateAll(@) EXCEPT
                                            !.wlock = FALSE],
                            !.last.locked = mu.ent[e].wlock,
                            !.pc = "idle"]
    /\ UNCHANGED notMu

\* mdcache_readdir on ERR_FSAL_OVERFLOW: the directory is no longer cached.
MuOverflow(d) ==
    /\ MuReady
    /\ ~mu.ent[d].bypass
    /\ MuCalled([mu.ent EXCEPT ![d] = [MuInvalidateAll(@) EXCEPT
                                          !.bypass = TRUE]],
                [NoMuCall EXCEPT !.op = "readdir", !.status = "OK",
                                 !.sub = "OVERFLOW", !.obj = d, !.d = d])
    /\ UNCHANGED notMu

MuSubStatus == {"OK", "STALE", "NOTEMPTY", "ACCESS"}

\* The object of the calls is a file or a directory, the other object a
\* file or a junction; dirent chunking is configured or not.
InitMu ==
    /\ InitCacheIdle
    /\ InitSdlIdle
    /\ InitOpsIdle
    /\ InitChunkIdle
    /\ content_lock = [e \in Entries |-> FreeLock]
    /\ attr_lock = [e \in CEntries |-> FreeLock]
    /\ rt = IdleRt
    /\ pl = IdlePl
    /\ cs = IdleCs
    /\ parts = IdleParts
    /\ \E objtype \in {"REGULAR_FILE", "DIRECTORY"}, junction \in BOOLEAN,
          chunked \in BOOLEAN :
        LET e0 == [MuEntries(objtype) EXCEPT
                      ![MuOther].junction = junction,
                      ![MuOther].type = IF junction THEN "DIRECTORY" ELSE @]
        IN  mu = [IdleMu EXCEPT !.ent = e0, !.pre = e0,
                                !.chunking = chunked]

NextMu ==
    \/ \E d \in MuDirs, n \in MuNames, c \in {MuObj, MuOther} :
            MuCreateCall(d, n, c)
    \/ \E d \in MuDirs, n \in MuNames, d2 \in MuDirs, n2 \in MuNames,
          sub \in {"OK", "ACCESS"}, changes_key \in BOOLEAN :
            MuRenameCall(d, n, d2, n2, sub, changes_key)
    \/ \E d \in MuDirs, n \in MuNames, sub \in MuSubStatus :
            MuUnlinkCall(d, n, sub)
    \/ \E e \in {1, MuObj}, invalidate \in BOOLEAN,
          sub \in {"OK", "STALE"}, mtime \in 0..MaxMtime :
            MuRefresh(e, invalidate, sub, mtime)
    \/ MuRefreshInval
    \/ \E d \in MuDirs : MuOverflow(d)

SpecMu == InitMu /\ [][NextMu]_vars

MuNoDirents(r) == (\A n \in MuNames : r.tree[n] = 0) /\ r.deleted = {}
MuContent(r) == <<r.tree, r.deleted, r.trust_content, r.populated,
                  r.trust_chunks, r.bypass>>

\* C13: when the sub-FSAL rename fails, or the destination is a junction,
\* mdcache_rename returns that error and every entry is as it was before
\* the call: flags, dirents, MDCACHE_UNREACHABLE and the cached parent
\* handle of the renamed directory.
C13_Original ==
    (mu.last.op = "rename"
        /\ (mu.last.status = "XDEV"
            \/ (mu.last.sub # "OK" /\ mu.last.dst # MuObj))) =>
        /\ mu.last.status \in {"XDEV", mu.last.sub}
        /\ mu.ent = mu.pre

\* C14: after a successful mdcache_rename on a sub-FSAL whose rename
\* changes keys the renamed object is MDCACHE_UNREACHABLE and neither the
\* source nor the destination directory has a dirent or a chunk left.
C14_Original ==
    (mu.last.op = "rename" /\ mu.last.status = "OK" /\ mu.last.changes_key
        /\ mu.last.dst # MuObj) =>
        /\ mu.ent[MuObj].unreachable
        /\ MuNoDirents(mu.ent[mu.last.d])
        /\ MuNoDirents(mu.ent[mu.last.d2])

\* C14 as the code has it: the renamed object is MDCACHE_UNREACHABLE, the
\* destination directory has no dirent and no chunk left, and the source
\* directory has lost the dirent of the old name; when it is another
\* directory than the destination it keeps every other dirent.
C14_KeyChange ==
    (mu.last.op = "rename" /\ mu.last.status = "OK" /\ mu.last.changes_key
        /\ mu.last.dst # MuObj) =>
        /\ mu.ent[MuObj].unreachable
        /\ MuNoDirents(mu.ent[mu.last.d2])
        /\ mu.ent[mu.last.d].tree[mu.last.n] = 0
        /\ mu.last.d # mu.last.d2 =>
            \A m \in MuNames \ {mu.last.n} :
                mu.ent[mu.last.d].tree[m] = mu.pre[mu.last.d].tree[m]

\* A key-changing rename from a directory that had the dirent of the old
\* name and another one, into another directory that had a dirent.
C14_Witness ==
    /\ mu.last.op = "rename" /\ mu.last.status = "OK" /\ mu.last.changes_key
    /\ mu.last.d # mu.last.d2
    /\ mu.pre[mu.last.d].tree[mu.last.n] = MuObj
    /\ \E m \in MuNames \ {mu.last.n} : mu.ent[mu.last.d].tree[m] # 0
    /\ mu.ent[MuObj].unreachable

\* C15: after a successful mdcache_unlink(parent, obj, name) the name has
\* no dirent in the by-name index of parent (a chunk keeps the dirent it
\* had, marked deleted), MDCACHE_TRUST_ATTRS is clear on parent and obj,
\* obj is MDCACHE_UNREACHABLE and the cached parent handle of a directory
\* obj is empty; after a sub-FSAL error other than ERR_FSAL_STALE, and
\* other than ERR_FSAL_NOTEMPTY on a directory, every entry is as it was.
C15_Unlink ==
    LET d == mu.last.d
        n == mu.last.n
        obj == mu.last.obj
    IN  mu.last.op = "unlink" =>
            /\ mu.last.status = "OK" =>
                /\ mu.ent[d].tree[n] = 0
                /\ (mu.chunking /\ mu.pre[d].tree[n] # 0) =>
                        n \in mu.ent[d].deleted
                /\ ~mu.ent[d].trust_attrs
                /\ ~mu.ent[obj].trust_attrs
                /\ mu.ent[obj].unreachable
                /\ mu.ent[obj].type = "DIRECTORY" => mu.ent[obj].parent = 0
            /\ (mu.last.status \notin {"OK", "STALE"}
                    /\ ~(mu.last.status = "NOTEMPTY"
                            /\ mu.ent[obj].type = "DIRECTORY")) =>
                mu.ent = mu.pre

\* A directory with a cached parent handle and trusted attributes was
\* unlinked from the directory that had its dirent, with chunking.
C15_Witness ==
    /\ mu.last.op = "unlink" /\ mu.last.status = "OK"
    /\ mu.pre[mu.last.d].tree[mu.last.n] = MuObj
    /\ mu.pre[MuObj].type = "DIRECTORY"
    /\ mu.pre[MuObj].parent = mu.last.d
    /\ mu.pre[MuObj].trust_attrs
    /\ mu.last.n \in mu.ent[mu.last.d].deleted
    /\ mu.ent[MuObj].unreachable

\* C16: mdcache_refresh_attrs leaves the dirents, the chunks and the
\* content flags of a directory as they were when the new mtime is not
\* later than the cached one; when invalidation was asked for and the new
\* mtime is later, no dirent and no chunk is left, and they were dropped
\* with the content lock held for write.
C16_Refresh ==
    LET e == mu.last.obj IN
    (mu.last.op = "refresh" /\ mu.pc = "idle") =>
        /\ mu.ent[e].mtime <= mu.pre[e].mtime =>
                MuContent(mu.ent[e]) = MuContent(mu.pre[e])
        /\ (mu.last.invalidate /\ mu.ent[e].type = "DIRECTORY"
                /\ mu.ent[e].mtime > mu.pre[e].mtime) =>
                /\ MuNoDirents(mu.ent[e])
                /\ mu.last.locked
                /\ ~mu.ent[e].wlock

\* The refresh of a directory that had a dirent found a later mtime and
\* dropped the dirent.
C16_Witness ==
    /\ mu.last.op = "refresh" /\ mu.pc = "idle" /\ mu.last.invalidate
    /\ mu.ent[mu.last.obj].mtime > mu.pre[mu.last.obj].mtime
    /\ ~MuNoDirents(mu.pre[mu.last.obj])
    /\ MuNoDirents(mu.ent[mu.last.obj])

(* ------------------------------------------------------------------ *)
(* The chunk structure of one directory: dirent->chunk,                *)
(* chunk->num_entries and the lists under mdcache_dirent_add,          *)
(* place_new_dirent and the chunk population of readdir                *)
(* ------------------------------------------------------------------ *)
\* A dirent is named by its cookie, the one the sub-FSAL computes from
\* its name. The content lock is held for write by each operation, so
\* the operations do not interleave.

notCs == <<content_lock, attr_lock, sdlVars, cacheOwn, opsOwn, chunkOwn, rt,
           pl, mu,
           parts>>

CsFree(c) == {i \in CsChunkIds : ~c.chunks[i].used}

\* The dirents linked on the dirent list of some chunk: the by-cookie
\* tree and the sorted tree hold them.
CsChunked(c) == UNION {SeqToSet(c.chunks[i].dirents) : i \in CsChunkIds}

\* The chunk whose dirent list the dirent k is linked on.
CsListOf(c, k) ==
    CHOOSE i \in CsChunkIds : k \in SeqToSet(c.chunks[i].dirents)

\* The split at the tail of place_new_dirent, behind num_entries++. The
\* scan of chunk->dirents stops at the dirent behind split_count; when
\* the list is shorter here stays NULL and assert(here != NULL) fails.
CsSplit(c, chunk) ==
    LET d == c.chunks[chunk].dirents
        split_count == c.avl_chunk_split \div 2
        split == Min1(CsFree(c))
        new == [CsNoChunk EXCEPT !.used = TRUE, !.listed = TRUE,
                                 !.prev_chunk = chunk,
                                 !.next_ck = c.chunks[chunk].next_ck]
        did == [op |-> "split", chunk |-> chunk, split |-> split,
                next_ck |-> c.chunks[chunk].next_ck, dirents |-> d]
    IN  IF c.chunks[chunk].num_entries # c.avl_chunk_split THEN c
        ELSE IF Len(d) <= split_count
        THEN [c EXCEPT !.chunks[split] = new, !.aborted = TRUE,
                       !.last = [did EXCEPT !.op = "abort"]]
        ELSE [c EXCEPT
                !.chunks[split] =
                    [new EXCEPT !.dirents = SubSeq(d, split_count + 1, Len(d)),
                                !.num_entries = split_count],
                !.chunks[chunk].dirents = SubSeq(d, 1, split_count),
                !.chunks[chunk].num_entries = split_count,
                !.chunks[chunk].next_ck = d[split_count + 1],
                !.last = did]

\* out: of place_new_dirent for a dirent whose chunk is NULL.
CsDetachAlt(c, ck) == c
CsDetach(c, ck) == [c EXCEPT !.detached = @ \cup {ck}]

\* "Set up to add to chunk": the chunk of the new dirent is left->chunk
\* at the end of the directory and right->chunk otherwise.
CsChunkForAlt(left, right, lchunk, rchunk) ==
    IF left # 0 THEN lchunk ELSE rchunk
CsChunkFor(left, right, lchunk, rchunk) ==
    IF right = 0 THEN lchunk ELSE rchunk

\* place_new_dirent has put the dirent before the first dirent of the
\* directory: "New first entry in directory".
CsNewFirstAlt(c, ck) == c
CsNewFirst(c, ck) == [c EXCEPT !.first_ck = ck, !.first_by = "place"]

\* place_new_dirent(parent_dir, new_dir_entry) for the dirent with the
\* computed cookie ck. left and right are its neighbours in the sorted
\* tree; left->chunk and right->chunk are read from the dirents.
CsPlaceNewDirent(c, ck) ==
    LET sorted == CsChunked(c)
        lefts == {k \in sorted : k < ck}
        rights == {k \in sorted : k > ck}
        left == IF lefts = {} THEN 0 ELSE Max1(lefts)
        right == IF rights = {} THEN 0 ELSE Min1(rights)
        lchunk == IF left = 0 THEN 0 ELSE c.chunk[left]
        rchunk == IF right = 0 THEN 0 ELSE c.chunk[right]
        chunk == CsChunkFor(left, right, lchunk, rchunk)
        atEnd == [c EXCEPT !.chunks[lchunk].dirents = Append(@, ck),
                           !.eod = (@ \ {left}) \cup {ck}]
        before == [c EXCEPT !.chunks[CsListOf(c, right)].dirents =
                                InsertBefore(@, ck, right)]
        fixed == IF left # 0
                 THEN [before EXCEPT !.chunks[lchunk].next_ck = ck]
                 ELSE CsNewFirst(before, ck)
        linked == IF right = 0 THEN atEnd ELSE fixed
        where == IF right = 0 THEN "end"
                 ELSE IF left = 0 THEN "first"
                 ELSE IF lchunk = rchunk THEN "inside" ELSE "between"
        counted == [linked EXCEPT !.chunk[ck] = chunk,
                                  !.chunks[chunk].num_entries = @ + 1,
                                  !.placed = where]
    IN  IF sorted = {} THEN CsDetach(c, ck)
        ELSE IF left = 0 /\ c.first_ck # right THEN CsDetach(c, ck)
        ELSE IF right = 0 /\ left \notin c.eod THEN CsDetach(c, ck)
        ELSE IF /\ left # 0
                /\ right # 0
                /\ lchunk # rchunk
                /\ lchunk # c.chunks[rchunk].prev_chunk
        THEN CsDetach(c, ck)
        ELSE CsSplit(counted, chunk)

\* mdcache_dirent_add for a name that is not in the by-name index: the
\* dirent is placed only when chunking is configured.
CsDirentAdd(c, ck) ==
    LET added == [c EXCEPT !.tree = @ \cup {ck}]
    IN  IF c.avl_chunk > 0 THEN CsPlaceNewDirent(added, ck) ELSE added

\* mdcache_create in the directory: the sub-FSAL creates the dirent and
\* mdcache_dirent_add caches it.
CsCreate(ck) ==
    /\ cs.pc = "idle"
    /\ ~cs.aborted
    /\ ck \notin cs.fs
    /\ ck \notin cs.tree
    /\ CsFree(cs) # {}
    /\ cs' = CsDirentAdd([cs EXCEPT !.fs = @ \cup {ck}, !.last = CsNoLast,
                                     !.placed = "none"], ck)
    /\ UNCHANGED notCs

\* mdcache_lookup of a name that is not cached: mdc_lookup_uncached adds
\* the dirent of the object the sub-FSAL finds.
CsLookup(ck) ==
    /\ cs.pc = "idle"
    /\ ~cs.aborted
    /\ ck \in cs.fs
    /\ ck \notin cs.tree
    /\ CsFree(cs) # {}
    /\ cs' = CsDirentAdd([cs EXCEPT !.last = CsNoLast, !.placed = "none"],
                         ck)
    /\ UNCHANGED notCs

\* mdcache_dirent_invalidate_all: the trees, the chunks and the detached
\* list are emptied.
CsInvalidateAll ==
    /\ cs.pc = "idle"
    /\ ~cs.aborted
    /\ cs.tree # {}
    /\ cs' = [IdleCs EXCEPT !.avl_chunk = cs.avl_chunk,
                            !.avl_chunk_split = cs.avl_chunk_split,
                            !.fs = cs.fs]
    /\ UNCHANGED notCs

\* mdcache_populate_dir_chunk(directory, whence, dirent, prev_chunk,
\* eod_met) up to the sub-FSAL's readdir: whence is not in the by-cookie
\* tree. With prev_chunk the scan goes on behind the last dirent of that
\* chunk.
CsPopulateStart(whence, prev_chunk) ==
    /\ cs.pc = "idle"
    /\ ~cs.aborted
    /\ cs.avl_chunk > 0
    /\ CsFree(cs) # {}
    /\ IF prev_chunk = 0
       THEN IF whence = 0 THEN cs.first_ck \notin CsChunked(cs)
            ELSE whence \notin CsChunked(cs)
       ELSE LET ch == cs.chunks[prev_chunk]
            IN  /\ ch.listed
                /\ Len(ch.dirents) > 0
                /\ whence = ch.dirents[Len(ch.dirents)]
                /\ whence \notin cs.eod
                /\ ch.next_ck \notin CsChunked(cs)
    /\ LET first_chunk == Min1(CsFree(cs))
       IN  cs' = [cs EXCEPT
                     !.chunks[first_chunk] =
                         [CsNoChunk EXCEPT !.used = TRUE,
                                           !.prev_chunk = prev_chunk],
                     !.pc = "fsal", !.cur = first_chunk,
                     !.first_chunk = first_chunk, !.pos = whence,
                     !.eod_met = FALSE,
                     !.set_first_ck = (prev_chunk = 0 /\ whence = 0),
                     !.last = CsNoLast, !.placed = "none"]
    /\ UNCHANGED notCs

\* The head of mdc_readdir_chunk_object: a full chunk in progress goes on
\* the directory's list and a new chunk follows it.
CsRotate(c) ==
    IF c.chunks[c.cur].num_entries = c.avl_chunk
    THEN LET new_chunk == Min1(CsFree(c))
         IN  [c EXCEPT !.chunks[c.cur].listed = TRUE,
                       !.chunks[new_chunk] =
                           [CsNoChunk EXCEPT !.used = TRUE,
                                             !.prev_chunk = c.cur],
                       !.cur = new_chunk]
    ELSE c

\* mdc_readdir_chunk_object for the listed dirent ck. A dirent found in
\* the by-name index is used again: one that is on a chunk ends the
\* population, a detached one is taken into the chunk in progress.
CsReaddirChunkObject(c0, ck) ==
    LET c == CsRotate(c0)
        cur == c.cur
        ch == c.chunks[cur]
        linked == IF ch.num_entries = 0 /\ ch.prev_chunk # 0
                  THEN [c EXCEPT !.chunks[ch.prev_chunk].next_ck = ck]
                  ELSE c
        added == [linked EXCEPT !.tree = @ \cup {ck},
                                !.chunk[ck] = cur,
                                !.detached = @ \ {ck},
                                !.chunks[cur].dirents = Append(@, ck),
                                !.chunks[cur].num_entries = @ + 1]
    IN  IF ck \in c.tree /\ c.chunk[ck] # 0
        THEN [c EXCEPT !.chunks[cur].next_ck = ck,
                       !.result = "DIR_TERMINATE"]
        ELSE [added EXCEPT !.result =
                  IF added.chunks[cur].num_entries = c.avl_chunk
                  THEN "DIR_READAHEAD" ELSE "DIR_CONTINUE"]

\* The dirents the sub-FSAL's readdir has not listed yet.
CsUnlisted == {k \in cs.fs : k > cs.pos}

\* The sub-FSAL's readdir hands its next dirent to the callback. After
\* DIR_READAHEAD it goes on when ra is set; when it stops there at its
\* last dirent it reports the end of the directory when eodrep is set.
CsCallback(ra, eodrep) ==
    /\ cs.pc = "fsal"
    /\ CsUnlisted # {}
    /\ Cardinality(CsFree(cs)) > 0
    /\ LET ck == Min1(CsUnlisted)
           c == CsReaddirChunkObject(cs, ck)
           goes_on == \/ c.result = "DIR_CONTINUE"
                      \/ c.result = "DIR_READAHEAD" /\ ra
       IN  cs' = [c EXCEPT !.pc = IF goes_on THEN "fsal" ELSE "fsal_ret",
                           !.pos = ck,
                           !.eod_met = /\ c.result = "DIR_READAHEAD"
                                       /\ ~ra
                                       /\ CsUnlisted = {ck}
                                       /\ eodrep]
    /\ UNCHANGED notCs

\* The sub-FSAL's readdir has listed its last dirent and reports the end
\* of the directory.
CsFsalEod ==
    /\ cs.pc = "fsal"
    /\ CsUnlisted = {}
    /\ cs' = [cs EXCEPT !.pc = "fsal_ret", !.eod_met = TRUE]
    /\ UNCHANGED notCs

\* The sub-FSAL's readdir has returned: the rest of
\* mdcache_populate_dir_chunk. An empty chunk in progress is given back,
\* another one goes on the directory's list, its last dirent flagged at
\* the end of the directory. mdcache_readdir_chunked sets first_ck.
CsPopulated ==
    /\ cs.pc = "fsal_ret"
    /\ LET chunk == cs.cur
           d == cs.chunks[chunk].dirents
           first == cs.chunks[cs.first_chunk].dirents
           kept == IF cs.chunks[chunk].num_entries = 0
                   THEN [cs EXCEPT !.chunks[chunk] = CsNoChunk]
                   ELSE [cs EXCEPT
                           !.chunks[chunk].listed = TRUE,
                           !.eod = IF cs.eod_met THEN @ \cup {d[Len(d)]}
                                   ELSE @]
       IN  cs' = [kept EXCEPT
                     !.first_ck = IF cs.set_first_ck /\ Len(first) > 0
                                  THEN first[1] ELSE @,
                     !.first_by = IF cs.set_first_ck /\ Len(first) > 0
                                  THEN "readdir" ELSE @,
                     !.pc = "idle", !.cur = 0, !.first_chunk = 0,
                     !.pos = 0, !.eod_met = FALSE, !.set_first_ck = FALSE,
                     !.result = "DIR_CONTINUE"]
    /\ UNCHANGED notCs

\* The configurations: chunking off, and chunking on with an even and an
\* odd split threshold.
CsConfigs == {<<0, 2 * AvlChunk>>, <<AvlChunk, 2 * AvlChunk>>,
              <<AvlChunk, 2 * AvlChunk + 1>>}

InitCs ==
    /\ InitCacheIdle
    /\ InitSdlIdle
    /\ InitOpsIdle
    /\ InitChunkIdle
    /\ content_lock = [e \in Entries |-> FreeLock]
    /\ attr_lock = [e \in CEntries |-> FreeLock]
    /\ rt = IdleRt
    /\ pl = IdlePl
    /\ mu = IdleMu
    /\ parts = IdleParts
    /\ \E conf \in CsConfigs, S \in SUBSET CsCookies :
           cs = [IdleCs EXCEPT !.avl_chunk = conf[1],
                               !.avl_chunk_split = conf[2], !.fs = S]

NextCs ==
    \/ \E ck \in CsCookies : CsCreate(ck)
    \/ \E ck \in CsCookies : CsLookup(ck)
    \/ CsInvalidateAll
    \/ \E whence \in 0..MaxCsCookie, prev_chunk \in 0..NumCsChunks :
           CsPopulateStart(whence, prev_chunk)
    \/ \E ra \in BOOLEAN, eodrep \in BOOLEAN : CsCallback(ra, eodrep)
    \/ CsFsalEod
    \/ CsPopulated

SpecCs == InitCs /\ [][NextCs]_vars

\* C17: for every dirent D whose chunk pointer is C, C is on the chunk
\* list of the directory and D is linked on C's dirent list, between any
\* two operations on the directory: after a split and after a readdir
\* population that found cached dirents as well.
C17_Original ==
    (cs.pc = "idle" /\ ~cs.aborted) =>
        \A k \in cs.tree :
            cs.chunk[k] # 0 =>
                /\ cs.chunks[cs.chunk[k]].listed
                /\ k \in SeqToSet(cs.chunks[cs.chunk[k]].dirents)

\* C18: for every chunk on the directory's chunk list, num_entries is the
\* number of dirents linked on the chunk's dirent list, for an even and
\* for an odd avl_chunk_split.
C18_Original ==
    (cs.pc = "idle" /\ ~cs.aborted) =>
        \A i \in CsChunkIds :
            cs.chunks[i].listed =>
                cs.chunks[i].num_entries = Len(cs.chunks[i].dirents)

\* C19: when an insertion by place_new_dirent brings the entry count of a
\* chunk to avl_chunk_split, the chunk is split in stream order into two
\* chunks of avl_chunk_split / 2 dirents each; the new chunk's prev_chunk
\* is the original chunk, its next_ck is the original's next_ck from
\* before the split, and the original's next_ck is the cookie of the
\* first dirent of the new chunk.
C19_Original ==
    cs.last.op # "none" =>
        LET orig == cs.chunks[cs.last.chunk]
            new == cs.chunks[cs.last.split]
        IN  /\ cs.last.op = "split"
            /\ orig.dirents \o new.dirents = cs.last.dirents
            /\ Len(orig.dirents) = cs.avl_chunk_split \div 2
            /\ Len(new.dirents) = cs.avl_chunk_split \div 2
            /\ new.prev_chunk = cs.last.chunk
            /\ new.next_ck = cs.last.next_ck
            /\ orig.next_ck = new.dirents[1]

\* A dirent of the by-name index that is on exactly one of the two
\* kinds of list, its chunk pointer telling which.
CsPlaced(k) ==
    \/ /\ cs.chunk[k] # 0
       /\ k \in CsChunked(cs)
       /\ k \notin cs.detached
    \/ /\ cs.chunk[k] = 0
       /\ k \in cs.detached
       /\ k \notin CsChunked(cs)

\* C20: every dirent of the by-name index is linked on the dirent list of
\* a chunk, with a chunk pointer, or on the detached list, without one;
\* never on both and never on neither.
C20_Original == \A k \in cs.tree : CsPlaced(k)

\* C20 as the code has it: that holds when chunking is configured
\* (avl_chunk > 0); without chunking mdcache_dirent_add does not place
\* the dirent and it is on neither list.
C20_Chunking ==
    /\ cs.avl_chunk > 0 => \A k \in cs.tree : CsPlaced(k)
    /\ cs.avl_chunk = 0 =>
           \A k \in cs.tree : cs.chunk[k] = 0 /\ k \notin cs.detached

\* A dirent was added with chunking configured and place_new_dirent left
\* it detached, beside dirents that are on a chunk.
C20_Witness ==
    /\ cs.avl_chunk > 0
    /\ cs.pc = "idle"
    /\ cs.detached # {}
    /\ \E k \in cs.tree : cs.chunk[k] # 0

(* ------------------------------------------------------------------ *)
(* The detached dirents of one directory: add_detached_dirent          *)
(* ------------------------------------------------------------------ *)
\* The content lock is held for write by every caller, so the calls do
\* not interleave.

notParts == <<content_lock, attr_lock, sdlVars, cacheOwn, opsOwn, chunkOwn,
             rt, pl, mu, cs>>

\* Every variable but parts before any call.
InitOthersIdle ==
    /\ InitCacheIdle
    /\ InitSdlIdle
    /\ InitOpsIdle
    /\ InitChunkIdle
    /\ content_lock = [e \in Entries |-> FreeLock]
    /\ attr_lock = [e \in CEntries |-> FreeLock]
    /\ rt = IdleRt
    /\ pl = IdlePl
    /\ mu = IdleMu
    /\ cs = IdleCs

\* mdcache_avl_remove of a detached dirent: it leaves the by-name index
\* and the detached list.
DtAvlRemove(d, removed) ==
    [d EXCEPT !.tree = @ \ {removed},
              !.detached = SelectSeq(@, LAMBDA k : k # removed),
              !.detached_count = @ - 1]

\* add_detached_dirent(parent, dirent)
add_detached_direntAlt(d, dirent) ==
    [d EXCEPT !.detached = <<dirent>> \o @, !.detached_count = @ + 1]
add_detached_dirent(d, dirent) ==
    LET aged == IF d.detached_count = d.avl_detached_max
                THEN DtAvlRemove(d, d.detached[Len(d.detached)])
                ELSE d
    IN  [aged EXCEPT !.detached = <<dirent>> \o @, !.detached_count = @ + 1]

DtCalled(d, op, n) ==
    [d EXCEPT !.last = [op |-> op, n |-> n,
                        detached |-> parts.dt.detached,
                        tree |-> parts.dt.tree]]

\* mdcache_dirent_add of a new name that place_new_dirent cannot put on
\* a chunk: out: finds its chunk NULL.
DtPlace(n) ==
    /\ n \notin parts.dt.tree
    /\ parts' = [parts EXCEPT !.dt =
                    DtCalled(add_detached_dirent(
                                 [parts.dt EXCEPT !.tree = @ \cup {n}], n),
                             "add", n)]
    /\ UNCHANGED notParts

\* mdcache_dirent_remove of a detached dirent.
DtRemove(n) ==
    /\ n \in SeqToSet(parts.dt.detached)
    /\ parts' = [parts EXCEPT !.dt =
                    DtCalled(DtAvlRemove(parts.dt, n), "remove", n)]
    /\ UNCHANGED notParts

\* The readdir population lists a detached dirent: mdcache_avl_qp_insert
\* gives it the chunk in progress, it leaves the detached list and stays
\* in the by-name index.
DtChunk(n) ==
    /\ n \in SeqToSet(parts.dt.detached)
    /\ parts' = [parts EXCEPT !.dt =
                    DtCalled([DtAvlRemove(parts.dt, n) EXCEPT
                                 !.tree = parts.dt.tree], "chunk", n)]
    /\ UNCHANGED notParts

\* mdcache_dirent_invalidate_all
DtInvalidateAll ==
    /\ parts.dt.tree # {}
    /\ parts' = [parts EXCEPT !.dt =
                    [IdleDt EXCEPT !.avl_detached_max =
                                       parts.dt.avl_detached_max]]
    /\ UNCHANGED notParts

InitDt ==
    /\ InitOthersIdle
    /\ \E max \in DtMaxes :
           parts = [IdleParts EXCEPT !.dt.avl_detached_max = max]

NextDt ==
    \/ \E n \in DtNames : DtPlace(n)
    \/ \E n \in DtNames : DtRemove(n)
    \/ \E n \in DtNames : DtChunk(n)
    \/ DtInvalidateAll

SpecDt == InitDt /\ [][NextDt]_vars

\* C21: a directory never has more than avl_detached_max detached
\* dirents and detached_count is the length of the detached list; a
\* detached dirent added to a full list goes to the head after the tail
\* of the list has left the list and the by-name index.
C21_Detached ==
    LET d == parts.dt
        pre == d.last.detached
    IN  /\ d.detached_count <= d.avl_detached_max
        /\ d.detached_count = Len(d.detached)
        /\ d.last.op = "add" =>
               IF Len(pre) = d.avl_detached_max
               THEN /\ d.detached =
                           <<d.last.n>> \o SubSeq(pre, 1, Len(pre) - 1)
                    /\ d.tree = (d.last.tree \ {pre[Len(pre)]})
                                    \cup {d.last.n}
               ELSE /\ d.detached = <<d.last.n>> \o pre
                    /\ d.tree = d.last.tree \cup {d.last.n}

\* A detached dirent was added to a list of avl_detached_max dirents,
\* more than one, and the tail is gone.
C21_Witness ==
    /\ parts.dt.last.op = "add"
    /\ parts.dt.avl_detached_max > 1
    /\ Len(parts.dt.last.detached) = parts.dt.avl_detached_max
    /\ parts.dt.last.detached[parts.dt.avl_detached_max] \notin parts.dt.tree

\* C22: between operations the next_ck of every chunk of the directory
\* is 0, or the cookie of no resident dirent, or the cookie of the first
\* dirent of another chunk; it is never the cookie of a dirent of the
\* chunk itself.
C22_Original ==
    (cs.pc = "idle" /\ ~cs.aborted) =>
        \A i \in CsChunkIds :
            cs.chunks[i].listed =>
                \/ cs.chunks[i].next_ck = 0
                \/ cs.chunks[i].next_ck \notin CsChunked(cs)
                \/ \E j \in CsChunkIds \ {i} :
                       /\ cs.chunks[j].dirents # <<>>
                       /\ cs.chunks[j].dirents[1] = cs.chunks[i].next_ck

CsBetween(ck, A, B) ==
    /\ cs.pc = "idle"
    /\ ~cs.aborted
    /\ cs.avl_chunk > 0
    /\ ck \notin cs.tree
    /\ A # B
    /\ cs.chunks[A].listed
    /\ cs.chunks[B].listed
    /\ cs.chunks[A].dirents # <<>>
    /\ cs.chunks[B].dirents # <<>>
    /\ cs.chunks[B].prev_chunk = A
    /\ cs.chunks[A].dirents[Len(cs.chunks[A].dirents)] < ck
    /\ ck < cs.chunks[B].dirents[1]
    /\ \A k \in CsChunked(cs) :
           \/ k <= cs.chunks[A].dirents[Len(cs.chunks[A].dirents)]
           \/ k >= cs.chunks[B].dirents[1]
    /\ cs.chunks[A].num_entries + 1 < cs.avl_chunk_split
    /\ cs.chunks[B].num_entries + 1 < cs.avl_chunk_split

\* A step that adds the dirent ck to the by-name index.
CsAdds(ck) == ck \notin cs.tree /\ ck \in cs'.tree

\* C24: a dirent whose cookie lies between the last dirent of a chunk A
\* and the first dirent of the chunk B behind it is placed in A: A's
\* num_entries grows by one, B is unchanged and no chunk is split.
C24_Original ==
    [][\A ck \in CsCookies, A \in CsChunkIds, B \in CsChunkIds :
           (CsBetween(ck, A, B) /\ CsAdds(ck)) =>
               /\ cs'.chunk[ck] = A
               /\ ck \in SeqToSet(cs'.chunks[A].dirents)
               /\ cs'.chunks[A].num_entries = cs.chunks[A].num_entries + 1
               /\ cs'.chunks[B] = cs.chunks[B]
               /\ cs'.last.op = "none"]_vars

\* C24 as the code has it: when the chunk pointers of the two neighbours
\* name A and B, the dirent becomes the first dirent of B: B's
\* num_entries grows by one, A keeps its dirents and its num_entries and
\* its next_ck becomes the cookie of the dirent, and no chunk is split.
C24_RightChunk ==
    [][\A ck \in CsCookies, A \in CsChunkIds, B \in CsChunkIds :
           (/\ CsBetween(ck, A, B)
            /\ cs.chunk[cs.chunks[A].dirents[Len(cs.chunks[A].dirents)]] = A
            /\ cs.chunk[cs.chunks[B].dirents[1]] = B
            /\ CsAdds(ck)) =>
               /\ cs'.chunk[ck] = B
               /\ cs'.chunks[B] =
                      [cs.chunks[B] EXCEPT !.dirents = <<ck>> \o @,
                                           !.num_entries = @ + 1]
               /\ cs'.chunks[A] = [cs.chunks[A] EXCEPT !.next_ck = ck]
               /\ cs'.last.op = "none"
               /\ \A i \in CsChunkIds \ {A, B} :
                      cs'.chunks[i] = cs.chunks[i]]_vars

\* place_new_dirent has put a dirent between two chunks: it is the first
\* dirent of the second one, whose prev_chunk names the first one.
C24_Witness ==
    /\ cs.pc = "idle"
    /\ cs.placed = "between"
    /\ cs.last.op = "none"
    /\ \E B \in CsChunkIds :
           /\ cs.chunks[B].listed
           /\ cs.chunks[B].prev_chunk # 0
           /\ cs.chunks[B].dirents # <<>>
           /\ cs.chunk[cs.chunks[B].dirents[1]] = B
           /\ cs.chunks[cs.chunks[B].prev_chunk].next_ck =
                  cs.chunks[B].dirents[1]
           /\ cs.chunks[B].num_entries = cs.avl_chunk + 1

\* The chunk machine's place_new_dirent leaves the dirent ck detached
\* for its position: it has no neighbour in the sorted tree (none), it
\* lies before the first cached chunk (before) or behind the last one
\* (behind), or its neighbours are on chunks that do not follow each
\* other (gap). "" when it is placed or has no computed cookie.
ChunkPosition(c, ck) ==
    LET sorted == Chunked(c.chunks)
        lefts == {k \in sorted : k < ck}
        rights == {k \in sorted : k > ck}
        left == IF lefts = {} THEN 0 ELSE Max1(lefts)
        right == IF rights = {} THEN 0 ELSE Min1(rights)
        lchunk == ChunkOf(c.chunks, left)
        rchunk == ChunkOf(c.chunks, right)
    IN  IF ~c.fso_cookie \/ ck \in sorted THEN ""
        ELSE IF sorted = {} THEN "none"
        ELSE IF left = 0 /\ c.first_ck # right THEN "before"
        ELSE IF right = 0 /\ left \notin c.eod THEN "behind"
        ELSE IF /\ left # 0
                /\ right # 0
                /\ lchunk # rchunk
                /\ lchunk # c.chunks[rchunk].prev_chunk
        THEN "gap"
        ELSE ""

\* A step of mdcache_create: the dirent ck is new in the directory.
ChunkCreates(ck) == ck \notin fs /\ ck \in fs'

ChunkTrustKept ==
    /\ cdir'.trust_chunks = cdir.trust_chunks
    /\ cdir'.populated = cdir.populated

ChunkTrustWithdrawn == ~cdir'.trust_chunks /\ ~cdir'.populated

\* C25: place_new_dirent leaves a dirent with a computed cookie detached
\* and TRUST_DIR_CHUNKS and DIR_POPULATED as they are when the dirent has
\* no neighbour in the sorted tree, lies before the first or behind the
\* last cached chunk, or has its neighbours on chunks that do not follow
\* each other; without a computed cookie the dirent is detached and both
\* flags are cleared.
C25_Original ==
    [][\A ck \in Cookies :
           ChunkCreates(ck) =>
               /\ ChunkPosition(cdir, ck) # "" =>
                      ck \in cdir'.detached /\ ChunkTrustKept
               /\ ~cdir.fso_cookie =>
                      ck \in cdir'.detached /\ ChunkTrustWithdrawn]_vars

\* C25 as the code has it: the flags are kept for a dirent before the
\* first chunk, behind the last one or between chunks that do not follow
\* each other; they are cleared when the sorted tree is empty and when
\* no cookie can be computed. The dirent is detached in all these cases.
C25_Positional ==
    [][\A ck \in Cookies :
           ChunkCreates(ck) =>
               /\ ChunkPosition(cdir, ck) \in {"before", "behind", "gap"} =>
                      ck \in cdir'.detached /\ ChunkTrustKept
               /\ ChunkPosition(cdir, ck) = "none" =>
                      ck \in cdir'.detached /\ ChunkTrustWithdrawn
               /\ ~cdir.fso_cookie =>
                      ck \in cdir'.detached /\ ChunkTrustWithdrawn]_vars

\* A dirent with a computed cookie is detached beside chunks that are
\* still trusted.
C25_Witness ==
    /\ RdcIdle
    /\ cdir.fso_cookie
    /\ cdir.detached # {}
    /\ cdir.trust_chunks
    /\ Chunked(cdir.chunks) # {}

(* ------------------------------------------------------------------ *)
(* The export mapping machine (SpecMp): mdc_check_mapping and          *)
(* mdc_clean_entry on one entry, statement by statement                *)
(* ------------------------------------------------------------------ *)

MpSet(m) == parts' = [parts EXCEPT !.mp = m] /\ UNCHANGED notParts

MpWithout(sq, id) == SelectSeq(sq, LAMBDA i : i # id)

\* glist_for_each over entry->export_list: a record of the export is on
\* the list.
MpOnListAlt(m, x) == m.first_export_id = x
MpOnList(m, x) ==
    \E i \in 1..Len(m.export_list) : m.expmap[m.export_list[i]] = x

\* The thread lets go of the entry's attr_lock, held for read or write.
MpAttrUnlock(m, t) ==
    [m EXCEPT !.attr.readers = @ \ {t},
              !.attr.writer = IF @ = t THEN 0 ELSE @]

\* The return of a call; mapped records whether a record of the call's
\* export is on the entry's list at that moment.
MpReturn(m, t, st) ==
    [m EXCEPT !.th[t].pc = "idle", !.th[t].status = st,
              !.th[t].mapped = st = "OK" /\ MpOnList(m, m.th[t].exp)]

\* mdc_check_mapping for the export x: the pre-check of MDC_UNEXPORT.
MpCall(t, x) ==
    LET m == parts.mp
        called == [m EXCEPT !.th[t] = [MpIdleThread EXCEPT !.exp = x]]
    IN  /\ m.th[t].pc = "idle"
        /\ MpSet(IF m.unexport[x] THEN MpReturn(called, t, "STALE")
                 ELSE [called EXCEPT !.th[t].pc = "fast"])

\* The fast path on first_export_id, then the read lock.
MpFast(t) ==
    LET m == parts.mp IN
        /\ m.th[t].pc = "fast"
        /\ MpSet(IF m.first_export_id = m.th[t].exp
                 THEN MpReturn([m EXCEPT !.th[t].fast = TRUE], t, "OK")
                 ELSE [m EXCEPT !.th[t].pc = "rdlock"])

\* PTHREAD_RWLOCK_rdlock(&entry->attr_lock).
MpRdlock(t) ==
    LET m == parts.mp IN
        /\ m.th[t].pc = "rdlock"
        /\ m.attr.writer = 0
        /\ MpSet([m EXCEPT !.attr.readers = @ \cup {t},
                           !.th[t].pc = "scan"])

\* again: the scan of the list. A hit unlocks and returns; a miss under
\* the read lock drops it to come back with the write lock; a miss under
\* the write lock goes on to add the record.
MpScan(t) ==
    LET m == parts.mp IN
        /\ m.th[t].pc = "scan"
        /\ MpSet(IF MpOnList(m, m.th[t].exp)
                 THEN MpReturn(MpAttrUnlock(m, t), t, "OK")
                 ELSE IF ~m.th[t].try_write
                 THEN [MpAttrUnlock(m, t) EXCEPT !.th[t].pc = "wrlock"]
                 ELSE [m EXCEPT !.th[t].pc = "explock"])

\* PTHREAD_RWLOCK_wrlock(&entry->attr_lock); try_write = true; goto again.
MpWrlock(t) ==
    LET m == parts.mp IN
        /\ m.th[t].pc = "wrlock"
        /\ m.attr.writer = 0
        /\ m.attr.readers = {}
        /\ MpSet([m EXCEPT !.attr.writer = t,
                           !.th[t].try_write = TRUE,
                           !.th[t].pc = "scan"])

\* PTHREAD_RWLOCK_wrlock(&export->mdc_exp_lock).
MpExplock(t) ==
    LET m == parts.mp IN
        /\ m.th[t].pc = "explock"
        /\ m.exp_lock[m.th[t].exp] = 0
        /\ MpSet([m EXCEPT !.exp_lock[m.th[t].exp] = t,
                           !.th[t].pc = "recheck"])

\* The re-check of MDC_UNEXPORT under both locks, then gsh_calloc of the
\* record and the store of first_export_id when the list is empty.
MpRecheck(t) ==
    LET m == parts.mp
        x == m.th[t].exp
        free == {i \in MpIds : m.expmap[i] = 0}
        id == CHOOSE i \in free : \A j \in free : i <= j
    IN  /\ m.th[t].pc = "recheck"
        /\ m.unexport[x] \/ free # {}
        /\ MpSet(IF m.unexport[x]
                 THEN MpReturn([MpAttrUnlock(m, t) EXCEPT !.exp_lock[x] = 0],
                               t, "STALE")
                 ELSE [m EXCEPT
                          !.expmap[id] = x,
                          !.first_export_id =
                              IF m.export_list = <<>> THEN x ELSE @,
                          !.th[t].id = id,
                          !.th[t].pc = "add_entry"])

\* glist_add_tail(&entry->export_list, &expmap->export_per_entry).
MpAddEntry(t) ==
    LET m == parts.mp IN
        /\ m.th[t].pc = "add_entry"
        /\ MpSet([m EXCEPT !.export_list = Append(@, m.th[t].id),
                           !.th[t].pc = "add_export"])

\* glist_add_tail(&export->entry_list, &expmap->entry_per_export) and the
\* two unlocks.
MpAddExport(t) ==
    LET m == parts.mp
        x == m.th[t].exp
        added == [m EXCEPT !.entry_list[x] = Append(@, m.th[t].id),
                           !.exp_lock[x] = 0,
                           !.th[t].added = TRUE]
    IN  /\ m.th[t].pc = "add_export"
        /\ MpSet(MpReturn(MpAttrUnlock(added, t), t, "OK"))

\* mdc_clean_entry: PTHREAD_RWLOCK_wrlock(&entry->attr_lock).
MpClean(t) ==
    LET m == parts.mp IN
        /\ m.th[t].pc = "idle"
        /\ m.attr.writer = 0
        /\ m.attr.readers = {}
        /\ MpSet([m EXCEPT !.attr.writer = t,
                           !.th[t] = [MpIdleThread EXCEPT !.pc = "c_loop"]])

\* glist_for_each_safe: the next record's export is locked; behind the
\* last record first_export_id is cleared and attr_lock released.
MpCleanLoop(t) ==
    LET m == parts.mp
        id == Head(m.export_list)
        x == m.expmap[id]
    IN  /\ m.th[t].pc = "c_loop"
        /\ IF m.export_list = <<>>
           THEN MpSet(MpReturn([MpAttrUnlock(m, t) EXCEPT
                                   !.first_export_id = -1], t, "CLEAN"))
           ELSE /\ m.exp_lock[x] = 0
                /\ MpSet([m EXCEPT !.exp_lock[x] = t,
                                   !.th[t].id = id,
                                   !.th[t].exp = x,
                                   !.th[t].pc = "c_remove"])

\* mdc_remove_export_map(expmap): the record leaves both lists and is
\* freed; then the export's lock is released.
MpCleanRemove(t) ==
    LET m == parts.mp
        id == m.th[t].id
        x == m.th[t].exp
    IN  /\ m.th[t].pc = "c_remove"
        /\ MpSet([m EXCEPT !.export_list = MpWithout(@, id),
                           !.entry_list[x] = MpWithout(@, id),
                           !.expmap[id] = 0,
                           !.exp_lock[x] = 0,
                           !.th[t].pc = "c_loop"])

\* An unexport begins: MDC_UNEXPORT is set on the export.
MpUnexport(x) ==
    /\ ~parts.mp.unexport[x]
    /\ MpSet([parts.mp EXCEPT !.unexport[x] = TRUE])

InitMp == InitOthersIdle /\ parts = IdleParts

NextMp ==
    \/ \E t \in MpThreads, x \in MpExports : MpCall(t, x)
    \/ \E t \in MpThreads : MpFast(t)
    \/ \E t \in MpThreads : MpRdlock(t)
    \/ \E t \in MpThreads : MpScan(t)
    \/ \E t \in MpThreads : MpWrlock(t)
    \/ \E t \in MpThreads : MpExplock(t)
    \/ \E t \in MpThreads : MpRecheck(t)
    \/ \E t \in MpThreads : MpAddEntry(t)
    \/ \E t \in MpThreads : MpAddExport(t)
    \/ \E t \in MpThreads : MpClean(t)
    \/ \E t \in MpThreads : MpCleanLoop(t)
    \/ \E t \in MpThreads : MpCleanRemove(t)
    \/ \E x \in MpExports : MpUnexport(x)

SpecMp == InitMp /\ [][NextMp]_vars

MpOn(sq, id) == \E i \in 1..Len(sq) : sq[i] = id

\* C26: under any interleaving of mdc_check_mapping and mdc_clean_entry
\* calls the entry has at most one mapping record for each export, no
\* record is twice on a list, and a record whose export's mdc_exp_lock is
\* not held is on the entry's export_list if and only if it is on the
\* entry_list of its export.
C26_OneMapping ==
    LET m == parts.mp IN
        /\ \A x \in MpExports :
               Cardinality({i \in MpIds : m.expmap[i] = x}) <= 1
        /\ \A i, j \in 1..Len(m.export_list) :
               m.export_list[i] = m.export_list[j] => i = j
        /\ \A x \in MpExports :
               /\ \A i, j \in 1..Len(m.entry_list[x]) :
                      m.entry_list[x][i] = m.entry_list[x][j] => i = j
               /\ \A i \in 1..Len(m.entry_list[x]) :
                      m.expmap[m.entry_list[x][i]] = x
               /\ m.exp_lock[x] = 0 =>
                      \A id \in MpIds :
                          (m.expmap[id] = x /\ MpOn(m.export_list, id))
                              <=> MpOn(m.entry_list[x], id)
        /\ \A i \in 1..Len(m.export_list) : m.expmap[m.export_list[i]] # 0

\* Two threads missed the same export under their read locks and both
\* came back with the write lock: one added the record, the other found
\* it at the second scan.
C26_Witness ==
    LET m == parts.mp IN
        \E t, u \in MpThreads :
            /\ t # u
            /\ m.th[t].exp = m.th[u].exp
            /\ m.th[t].pc = "idle" /\ m.th[u].pc = "idle"
            /\ m.th[t].status = "OK" /\ m.th[u].status = "OK"
            /\ m.th[t].try_write /\ m.th[u].try_write
            /\ m.th[t].added /\ ~m.th[u].added
            /\ MpOnList(m, m.th[t].exp)

(* ------------------------------------------------------------------ *)
(* The attribute machine (SpecAt): getattrs, setattrs, the callback of *)
(* the chunked readdir and test_access on one published entry          *)
(* ------------------------------------------------------------------ *)

AtSet(a) == parts' = [parts EXCEPT !.at = a] /\ UNCHANGED notParts

AtOps == {"getattrs", "setattrs", "readdir", "test_access"}

AtUnlocked(a, t) ==
    [a EXCEPT !.lock.readers = @ \ {t},
              !.lock.writer = IF @ = t THEN 0 ELSE @]

\* An operation begins.
AtCall(t, op) ==
    LET a == parts.at IN
        /\ a.th[t].pc = "idle"
        /\ AtSet([a EXCEPT !.th[t] =
                     [AtIdleThread EXCEPT
                         !.op = op,
                         !.pc = CASE op = "setattrs" -> "s_wrlock"
                                  [] op = "test_access" -> "ta_owner"
                                  [] OTHER -> "g_rdlock"]])

\* mdcache_test_access: entry->attrs.owner is compared with the caller's
\* uid; fsal_test_access then asks getattrs.
AtTaOwner(t) ==
    LET a == parts.at IN
        /\ a.th[t].pc = "ta_owner"
        /\ AtSet([a EXCEPT !.th[t].seen.owner = a.attrs.owner,
                           !.th[t].pc = "g_rdlock"])

\* mdcache_getattrs: PTHREAD_RWLOCK_rdlock(&entry->attr_lock).
AtRdlock(t) ==
    LET a == parts.at IN
        /\ a.th[t].pc = "g_rdlock"
        /\ a.lock.writer = 0
        /\ AtSet([a EXCEPT !.lock.readers = @ \cup {t},
                           !.th[t].pc = "g_valid"])

\* mdcache_is_attrs_valid under the read lock: up to date goes to the
\* copy, else the read lock is dropped for the write lock.
AtValid(t) ==
    LET a == parts.at IN
        /\ a.th[t].pc = "g_valid"
        /\ AtSet(IF a.valid THEN [a EXCEPT !.th[t].pc = "copy_owner"]
                 ELSE [AtUnlocked(a, t) EXCEPT !.th[t].pc = "g_wrlock"])

\* PTHREAD_RWLOCK_wrlock(&entry->attr_lock), of getattrs after the
\* promotion and of setattrs.
AtWrlock(t) ==
    LET a == parts.at IN
        /\ a.th[t].pc \in {"g_wrlock", "s_wrlock"}
        /\ a.lock.writer = 0
        /\ a.lock.readers = {}
        /\ AtSet([a EXCEPT !.lock.writer = t,
                           !.th[t].pc = IF a.th[t].pc = "g_wrlock"
                                        THEN "g_revalid" ELSE "s_sub"])

\* "Someone beat us to it": the second mdcache_is_attrs_valid.
AtRevalid(t) ==
    LET a == parts.at IN
        /\ a.th[t].pc = "g_revalid"
        /\ AtSet([a EXCEPT !.th[t].pc = IF a.valid THEN "copy_owner"
                                        ELSE "refresh_sub"])

\* mdcache_setattrs: the sub-FSAL's setattrs changes the object; an
\* error goes to unlock.
AtSetSub(t) ==
    LET a == parts.at IN
        /\ a.th[t].pc = "s_sub"
        /\ \/ /\ a.fsattr < MaxAtVer
              /\ AtSet([a EXCEPT !.fsattr = @ + 1,
                                 !.th[t].pc = "refresh_sub"])
           \/ AtSet([a EXCEPT !.th[t].error = TRUE,
                              !.th[t].pc = "unlock"])

\* mdcache_refresh_attrs: the sub-FSAL's getattrs into the local attrs;
\* an error leaves entry->attrs alone.
AtRefreshSub(t) ==
    LET a == parts.at IN
        /\ a.th[t].pc = "refresh_sub"
        /\ \/ AtSet([a EXCEPT !.th[t].local = a.fsattr,
                              !.th[t].pc = "refresh_owner"])
           \/ AtSet([a EXCEPT !.th[t].error = TRUE,
                              !.th[t].pc = "unlock"])

\* fsal_copy_attrs(&entry->attrs, &attrs, true), one field after the
\* other.
AtRefreshOwner(t) ==
    LET a == parts.at IN
        /\ a.th[t].pc = "refresh_owner"
        /\ AtSet([a EXCEPT !.attrs.owner = a.th[t].local,
                           !.th[t].pc = "refresh_mode"])

AtRefreshMode(t) ==
    LET a == parts.at IN
        /\ a.th[t].pc = "refresh_mode"
        /\ AtSet([a EXCEPT !.attrs.mode = a.th[t].local,
                           !.valid = TRUE,
                           !.th[t].pc = IF a.th[t].op = "setattrs"
                                        THEN "unlock" ELSE "copy_owner"])

\* unlock: fsal_copy_attrs(attrs_out, &entry->attrs, false), one field
\* after the other.
AtCopyOwner(t) ==
    LET a == parts.at IN
        /\ a.th[t].pc = "copy_owner"
        /\ AtSet([a EXCEPT !.th[t].out.owner = a.attrs.owner,
                           !.th[t].pc = "copy_mode"])

AtCopyMode(t) ==
    LET a == parts.at IN
        /\ a.th[t].pc = "copy_mode"
        /\ AtSet([a EXCEPT !.th[t].out.mode = a.attrs.mode,
                           !.th[t].pc = "unlock"])

\* The attributes the chunked readdir passes to the caller's callback
\* come from &entry->attrs; the copy getattrs made would be out.
AtCbAttrsAlt(a, t) == "out"
AtCbAttrs(a, t) == "entry"

\* unlock_no_attrs: PTHREAD_RWLOCK_unlock(&entry->attr_lock). getattrs
\* hands its copy to the caller; the chunked readdir goes on to the
\* callback.
AtUnlock(t) ==
    LET a == parts.at
        u == AtUnlocked(a, t)
        op == a.th[t].op
    IN  /\ a.th[t].pc = "unlock"
        /\ AtSet(IF a.th[t].error \/ op = "setattrs"
                 THEN [u EXCEPT !.th[t].pc = "idle"]
                 ELSE IF op = "readdir"
                 THEN IF AtCbAttrs(a, t) = "entry"
                      THEN [u EXCEPT !.th[t].pc = "cb_owner"]
                      ELSE [u EXCEPT !.th[t].pc = "idle",
                                     !.th[t].seen = a.th[t].out,
                                     !.th[t].handed = TRUE]
                 ELSE IF op = "getattrs"
                 THEN [u EXCEPT !.th[t].pc = "idle",
                                !.th[t].seen = a.th[t].out,
                                !.th[t].handed = TRUE]
                 ELSE [u EXCEPT !.th[t].pc = "idle"])

\* cb(dirent->name, &entry->obj_handle, &entry->attrs, ...): the
\* callback reads the fields of the entry's own struct.
AtCbOwner(t) ==
    LET a == parts.at IN
        /\ a.th[t].pc = "cb_owner"
        /\ AtSet([a EXCEPT !.th[t].seen.owner = a.attrs.owner,
                           !.th[t].pc = "cb_mode"])

AtCbMode(t) ==
    LET a == parts.at IN
        /\ a.th[t].pc = "cb_mode"
        /\ AtSet([a EXCEPT !.th[t].seen.mode = a.attrs.mode,
                           !.th[t].handed = TRUE,
                           !.th[t].pc = "idle"])

\* The attributes expire or are invalidated: mdcache_is_attrs_valid will
\* answer no.
AtExpire ==
    /\ parts.at.valid
    /\ AtSet([parts.at EXCEPT !.valid = FALSE])

InitAt == InitOthersIdle /\ parts = IdleParts

NextAt ==
    \/ \E t \in AtThreads, op \in AtOps : AtCall(t, op)
    \/ \E t \in AtThreads : AtTaOwner(t)
    \/ \E t \in AtThreads : AtRdlock(t)
    \/ \E t \in AtThreads : AtValid(t)
    \/ \E t \in AtThreads : AtWrlock(t)
    \/ \E t \in AtThreads : AtRevalid(t)
    \/ \E t \in AtThreads : AtSetSub(t)
    \/ \E t \in AtThreads : AtRefreshSub(t)
    \/ \E t \in AtThreads : AtRefreshOwner(t)
    \/ \E t \in AtThreads : AtRefreshMode(t)
    \/ \E t \in AtThreads : AtCopyOwner(t)
    \/ \E t \in AtThreads : AtCopyMode(t)
    \/ \E t \in AtThreads : AtUnlock(t)
    \/ \E t \in AtThreads : AtCbOwner(t)
    \/ \E t \in AtThreads : AtCbMode(t)
    \/ AtExpire

SpecAt == InitAt /\ [][NextAt]_vars

\* C27: entry->attrs is changed only under the attr_lock held for write,
\* and the attribute set an operation hands to its caller (getattrs, the
\* callback of the chunked readdir) is never a partially updated one.
C27_Original ==
    LET a == parts.at IN
        /\ a.attrs.owner # a.attrs.mode => a.lock.writer # 0
        /\ \A t \in AtThreads :
               a.th[t].handed => a.th[t].seen.owner = a.th[t].seen.mode

\* The part of C27 the code keeps: entry->attrs is changed only under
\* the write lock, and the copy getattrs makes is a whole attribute set.
C27_CopyWhole ==
    LET a == parts.at IN
        /\ a.attrs.owner # a.attrs.mode => a.lock.writer # 0
        /\ \A t \in AtThreads :
               (a.th[t].pc \in {"unlock", "cb_owner", "cb_mode"}
                    /\ ~a.th[t].error /\ a.th[t].op # "setattrs") =>
                   a.th[t].out.owner = a.th[t].out.mode

\* The callback of the chunked readdir or test_access reads
\* entry->attrs while another thread holds the attr_lock for write.
C27_UnlockedRead ==
    LET a == parts.at IN
        \E t \in AtThreads :
            /\ a.th[t].pc \in {"cb_owner", "cb_mode", "ta_owner"}
            /\ a.lock.writer \notin {0, t}

\* The cookie whence is that of no dirent, in the directory or cached.
RdcNotLocatable(whence) ==
    /\ whence \notin fs
    /\ whence \notin Chunked(cdir.chunks)
    /\ whence \notin cdir.detached

\* C28: with dirent chunking enabled a readdir that returned for a
\* non-zero starting cookie which is smaller than 3 or is the cookie of
\* no dirent has returned BADCOOKIE and has not called the caller's
\* callback.
C28_Original ==
    (rdc.pc = "done" /\ rdc.whence # 0
        /\ RdcNotLocatable(rdc.whence)) =>
        (rdc.status = "BADCOOKIE" /\ rdc.out = <<>>)

\* A chunked readdir from the cookie of no dirent has handed dirents to
\* the callback and returned without error.
C28_Handed ==
    /\ rdc.pc = "done"
    /\ rdc.whence # 0
    /\ RdcNotLocatable(rdc.whence)
    /\ rdc.status = "OK"
    /\ rdc.out # <<>>

(* ------------------------------------------------------------------ *)
(* mdcache_src_dest_lock under fair scheduling (SpecLockFair)          *)
(* ------------------------------------------------------------------ *)

\* Every thread keeps running: the try-lock, the sleep and the unlocks
\* are taken when they are due; a thread blocked in
\* PTHREAD_RWLOCK_wrlock gets the lock if it is free again and again.
\* Whoever holds a content lock releases it.
SdlFair ==
    \A t \in Threads :
        /\ SF_vars(SdlWrlock(t))
        /\ WF_vars(SdlTrylock(t))
        /\ WF_vars(SdlSleep(t))
        /\ WF_vars(SdlUnlock1(t))
        /\ WF_vars(SdlUnlock2(t))

SpecLockFair == SpecLock /\ SdlFair

SdlInCall(t) == lk_pc[t] \in {"retry_lock", "try", "sleep"}

\* C29: every call of mdcache_src_dest_lock returns, holding both locks.
C29_Original ==
    \A t \in Threads : SdlInCall(t) ~> (lk_pc[t] = "locked")

\* Every call in progress is for the same two directories, in either
\* order.
SdlSamePair ==
    \A t \in Threads :
        lk_pc[t] # "idle" => {lk_src[t], lk_dest[t]} = {1, 2}

\* C29 as the code has it: while calls are in progress one of them
\* returns; calls that are all for the same pair of directories, in
\* either order, all return.
C29_SomeReturns ==
    /\ (\E t \in Threads : SdlInCall(t))
           ~> (\E t \in Threads : lk_pc[t] = "locked")
    /\ ([]SdlSamePair) => C29_Original

\* Two calls for the same pair in opposite argument order: one has
\* returned with both locks, the other is blocked on the lower entry.
C29_Witness ==
    \E t1 \in Threads, t2 \in Threads :
        /\ lk_src[t1] = lk_dest[t2] /\ lk_dest[t1] = lk_src[t2]
        /\ lk_src[t1] # lk_dest[t1]
        /\ lk_pc[t1] = "locked" /\ lk_pc[t2] = "retry_lock"
        /\ \A e \in Entries : SdlHolds(t1, e)

(* ------------------------------------------------------------------ *)
(* The population machine (SpecWn): mdcache_populate_dir_chunk and the *)
(* sub-FSAL readdir it calls, with and without fso_whence_is_name      *)
(* ------------------------------------------------------------------ *)

WnSet(w) == parts' = [parts EXCEPT !.wn = w] /\ UNCHANGED notParts

WnInSeq(k, sq) == \E i \in 1..Len(sq) : sq[i] = k

\* The cookies of the dirents in chunks.
WnCached(w) ==
    {k \in 1..MaxWnDirents :
        \E i \in WnChunkIds : WnInSeq(k, w.chunks[i].dirents)}

\* dirent->chunk of the cached dirent with the cookie k, 0 without one
\* (mdcache_avl_lookup_ck).
WnChunkOf(w, k) ==
    IF k \in WnCached(w)
    THEN CHOOSE i \in WnChunkIds : WnInSeq(k, w.chunks[i].dirents)
    ELSE 0

WnFree(w) == {i \in WnChunkIds : ~w.chunks[i].used}

\* mdcache_get_chunk.
WnGetChunk(w) == CHOOSE i \in WnFree(w) : \A j \in WnFree(w) : i <= j

\* One round of the loop of mdcache_skip_chunks: c is the chunk found so
\* far and ck the cookie to look up next.
WnSkipStep(w, s) ==
    IF s.ck # 0 /\ WnChunkOf(w, s.ck) # 0
    THEN [c |-> WnChunkOf(w, s.ck),
          ck |-> w.chunks[WnChunkOf(w, s.ck)].next_ck]
    ELSE [c |-> s.c, ck |-> 0]

\* mdcache_skip_chunks handing back the chunk before the last one of the
\* chain.
WnSkipChunksAlt(w, next_ck) ==
    LET s1 == WnSkipStep(w, [c |-> 0, ck |-> next_ck])
        s2 == WnSkipStep(w, s1)
        s3 == WnSkipStep(w, s2)
        s4 == WnSkipStep(w, s3)
        s5 == WnSkipStep(w, s4)
    IN  IF s5.c # s4.c THEN s4.c
        ELSE IF s4.c # s3.c THEN s3.c
        ELSE IF s3.c # s2.c THEN s2.c
        ELSE IF s2.c # s1.c THEN s1.c
        ELSE 0

\* mdcache_skip_chunks(directory, next_ck): the chunk at the end of the
\* chain of next_ck, NULL when the first lookup fails. The chain has no
\* more links than there are chunks.
WnSkipChunks(w, next_ck) ==
    WnSkipStep(w, WnSkipStep(w, WnSkipStep(w, WnSkipStep(w,
        WnSkipStep(w, [c |-> 0, ck |-> next_ck]))))).c

\* mdcache_readdir_chunked calls mdcache_populate_dir_chunk for a cookie
\* it did not find in the cache (look_ck is first_ck for whence 0); under
\* whence-is-name with first_ck set it passes the last chunk of the chain
\* from first_ck and asserts that there is one. A failed assertion ends
\* the program.
WnStart(whence) ==
    LET w == parts.wn
        first == WnGetChunk(w)
        look_ck == IF whence = 0 THEN w.first_ck ELSE whence
        skips == w.whence_is_name /\ w.first_ck # 0
        chunk == IF skips THEN WnSkipChunks(w, w.first_ck) ELSE 0
    IN  /\ w.pc = "idle"
        /\ look_ck = 0 \/ look_ck \notin WnCached(w)
        /\ WnFree(w) # {}
        /\ IF skips /\ chunk = 0
           THEN WnSet([w EXCEPT !.pc = "aborted", !.cookie = whence,
                                !.asserted = "failed"])
           ELSE WnSet([w EXCEPT
                     !.pc = "again", !.cookie = whence, !.dirent = 0,
                     !.eod_met = FALSE,
                     !.asserted = IF skips THEN "held" ELSE "none",
                     !.prev_chunk = chunk,
                     !.first_chunk = first, !.chunk = first,
                     !.chunks[first].used = TRUE])

\* first_ck when the dirents ds leave their chunk: mdcache_avl_remove
\* clears it with the first dirent of the directory.
WnUnchunked(first_ck, ds) == IF WnInSeq(first_ck, ds) THEN 0 ELSE first_ck

\* Between two readdirs: mdcache_dirent_invalidate_all gives every chunk
\* back.
WnInvalidateAll ==
    LET w == parts.wn IN
        /\ w.pc = "idle"
        /\ \E i \in WnChunkIds : w.chunks[i].used
        /\ WnSet([w EXCEPT
                     !.chunks = [i \in WnChunkIds |-> WnNoChunk],
                     !.first_ck = IF @ \in WnCached(w) THEN 0 ELSE @,
                     !.dropped = TRUE])

\* Between two readdirs: the chunk LRU reaps the chunk i,
\* lru_remove_chunk and mdcache_clean_dirent_chunk take its dirents out
\* of the trees and the chunk off the directory.
WnReap(i) ==
    LET w == parts.wn IN
        /\ w.pc = "idle"
        /\ w.chunks[i].used
        /\ WnSet([w EXCEPT
                     !.chunks[i] = WnNoChunk,
                     !.first_ck = WnUnchunked(@, w.chunks[i].dirents),
                     !.dropped = TRUE])

\* again: chunk->prev_chunk = prev_chunk and the sub-FSAL readdir is
\* called, under whence-is-name from the last name of prev_chunk or from
\* the beginning, else from the cookie.
WnAgain ==
    LET w == parts.wn
        pd == w.chunks[w.prev_chunk].dirents
    IN  /\ w.pc = "again"
        /\ WnSet([w EXCEPT
                     !.chunks[w.chunk].prev_chunk = w.prev_chunk,
                     !.pos = IF w.whence_is_name
                             THEN IF w.prev_chunk # 0
                                  THEN pd[Len(pd)] + 1 ELSE 1
                             ELSE w.cookie + 1,
                     !.pc = "readdir"])

\* The dirents whose cookie mdc_readdir_chunk_object takes for the one
\* the caller looks for.
WnFound(w, k) == w.whence_is_name /\ k = w.cookie

\* mdc_readdir_chunked_cb for the dirent k: a full chunk is followed by
\* a new one; a dirent that is cached already ends the readdir and
\* leaves its cookie in next_ck; else the dirent joins the chunk, the
\* first of a chunk is linked from prev_chunk, and a full chunk lets the
\* sub-FSAL read ahead or stop.
WnCallback(goon) ==
    LET w == parts.wn
        k == w.pos
        full == Len(w.chunks[w.chunk].dirents) = WnAvlChunk
        new == WnGetChunk(w)
        w1 == IF full
              THEN [w EXCEPT !.chunks[new].used = TRUE,
                             !.chunks[new].prev_chunk = w.chunk,
                             !.chunk = new]
              ELSE w
        c == w1.chunk
        prev == w1.chunks[c].prev_chunk
        linked == IF w1.chunks[c].dirents = <<>> /\ prev # 0
                  THEN [w1 EXCEPT !.chunks[prev].next_ck = k]
                  ELSE w1
        added == [linked EXCEPT
                     !.chunks[c].dirents = Append(@, k),
                     !.dirent = IF WnFound(w, k) THEN k ELSE @,
                     !.pos = k + 1]
    IN  /\ w.pc = "readdir"
        /\ k <= w.n
        /\ full => WnFree(w) # {}
        /\ IF k \in WnCached(w)
           THEN /\ goon
                /\ WnSet([w1 EXCEPT !.chunks[c].next_ck = k,
                                    !.eod_met = FALSE, !.pc = "after"])
           ELSE IF Len(added.chunks[c].dirents) = WnAvlChunk /\ ~goon
           THEN WnSet([added EXCEPT !.eod_met = FALSE, !.pc = "after"])
           ELSE goon /\ WnSet(added)

\* The sub-FSAL has listed the last dirent and signals end of directory.
WnEod ==
    LET w == parts.wn IN
        /\ w.pc = "readdir"
        /\ w.pos > w.n
        /\ WnSet([w EXCEPT !.eod_met = TRUE, !.pc = "after"])

\* mdcache_populate_dir_chunk returns; mdcache_readdir_chunked stores
\* first_ck after a population from cookie 0.
WnReturn(w) ==
    [w EXCEPT !.pc = "idle",
              !.first_ck = IF w.cookie = 0 /\ w.dirent # 0 /\ @ = 0
                           THEN w.dirent ELSE @]

\* Behind the sub-FSAL readdir: an empty chunk is given back, and the
\* call returns when that is the first chunk; with whence-is-name and
\* *dirent still NULL the next chunks are skipped, a fresh chunk is
\* allocated and the code jumps to again; else the call returns the
\* dirent found or the first dirent of the first chunk.
WnAfter ==
    LET w == parts.wn
        c == w.chunk
        empty == w.chunks[c].dirents = <<>>
        w1 == IF empty
              THEN [w EXCEPT !.chunks[c] = WnNoChunk,
                             !.chunk = w.chunks[c].prev_chunk]
              ELSE w
        c1 == w1.chunk
        skipped == IF c1 # 0 /\ w1.chunks[c1].next_ck # 0
                   THEN WnSkipChunks(w1, w1.chunks[c1].next_ck)
                   ELSE c1
        fresh == WnGetChunk(w1)
    IN  /\ w.pc = "after"
        /\ IF empty /\ c = w.first_chunk
           THEN WnSet(WnReturn([w1 EXCEPT !.dirent = 0]))
           ELSE IF w.whence_is_name /\ w.dirent = 0
           THEN /\ WnFree(w1) # {}
                /\ WnSet([w1 EXCEPT !.prev_chunk = skipped,
                                    !.chunk = fresh,
                                    !.chunks[fresh].used = TRUE,
                                    !.pc = "again"])
           ELSE WnSet(WnReturn(
                    [w1 EXCEPT !.dirent =
                        IF @ = 0
                        THEN w1.chunks[w.first_chunk].dirents[1]
                        ELSE @]))

\* A directory of n dirents of which the dirents lo..hi are cached in
\* one chunk (none when lo > hi).
InitWn ==
    /\ InitOthersIdle
    /\ \E n \in 0..MaxWnDirents, name \in BOOLEAN,
          lo \in 1..MaxWnDirents, hi \in 0..MaxWnDirents :
           /\ hi <= n
           /\ hi - lo < WnAvlChunk
           /\ lo > hi => (lo = 1 /\ hi = 0)
           /\ parts = [IdleParts EXCEPT
                  !.wn.n = n,
                  !.wn.whence_is_name = name,
                  !.wn.first_ck = IF lo = 1 /\ hi >= 1 THEN 1 ELSE 0,
                  !.wn.chunks[1] =
                      IF lo <= hi
                      THEN [used |-> TRUE,
                            dirents |-> [i \in 1..(hi - lo + 1) |->
                                            lo + i - 1],
                            next_ck |-> 0, prev_chunk |-> 0]
                      ELSE WnNoChunk]

NextWn ==
    \/ \E whence \in 0..(MaxWnDirents + 1) : WnStart(whence)
    \/ WnAgain
    \/ \E goon \in BOOLEAN : WnCallback(goon)
    \/ WnEod
    \/ WnAfter
    \/ WnInvalidateAll
    \/ \E i \in WnChunkIds : WnReap(i)

SpecWn == InitWn /\ [][NextWn]_vars

\* C30: under a whence-is-name sub-FSAL mdcache_populate_dir_chunk calls
\* the sub-FSAL readdir again only while the dirent is not found and the
\* sub-FSAL has not signalled end of directory: it is never back at
\* again with *eod_met set.
C30_Original ==
    LET w == parts.wn IN
        (w.whence_is_name /\ w.pc = "again") => ~w.eod_met

\* The sub-FSAL has signalled end of directory, the sought cookie was
\* not found, and the loop has called the sub-FSAL readdir once more.
C30_Rescan ==
    LET w == parts.wn IN
        /\ w.whence_is_name
        /\ w.pc = "readdir"
        /\ w.eod_met
        /\ w.dirent = 0
        /\ w.cookie # 0
        /\ w.pos > w.n

(* ------------------------------------------------------------------ *)
(* Claims C31 on the chunk machine (SpecChunk)                         *)
(* ------------------------------------------------------------------ *)

\* At most one dirent of the directory carries the eod mark.
RdcOneEod == Cardinality(cdir.eod) <= 1

\* No dirent is handed to the callback behind the one with the eod mark.
RdcStopsAtEod ==
    \A i \in 1..(Len(rdc.out) - 1) : rdc.out[i] \notin cdir.eod

\* The last dirent handed to the callback was accepted and carries the
\* eod mark.
RdcLastIsEod ==
    /\ rdc.cb_result # "DIR_TERMINATE"
    /\ rdc.out # <<>>
    /\ rdc.out[Len(rdc.out)] \in cdir.eod

\* C31: the walk of mdcache_readdir_chunked stops at the dirent with the
\* eod mark, a call that returned has eod_met set exactly when the last
\* dirent it handed to the callback was accepted and carries the eod
\* mark, and at most one dirent of the directory carries the mark.
C31_Original ==
    /\ RdcOneEod
    /\ RdcStopsAtEod
    /\ rdc.pc = "done" => (rdc.eod_met <=> RdcLastIsEod)

\* Nothing of the directory lies behind the position the walk reached:
\* mdcache_populate_dir_chunk came back without a dirent.
RdcNothingLeft ==
    LET last == IF rdc.out = <<>> THEN rdc.whence
                ELSE rdc.out[Len(rdc.out)]
    IN  \A k \in fs : k <= last

\* whence is 0 or the cookie of a dirent that is in the directory or was
\* handed out by an earlier readdir.
RdcWhenceKnown == rdc.whence = 0 \/ rdc.whence \in fs \cup stable

\* C31 as the code has it: at most one dirent carries the eod mark, no
\* dirent is handed over behind it, eod_met is never set after
\* DIR_TERMINATE, it is set when the last dirent handed over was accepted
\* and carries the eod mark, and for a known whence otherwise only when
\* populating found nothing behind the position reached (an empty
\* directory included).
C31_EodMet ==
    /\ RdcOneEod
    /\ RdcStopsAtEod
    /\ rdc.pc = "done" =>
          /\ rdc.cb_result = "DIR_TERMINATE" => ~rdc.eod_met
          /\ RdcLastIsEod => rdc.eod_met
          /\ rdc.eod_met /\ ~RdcLastIsEod /\ RdcWhenceKnown => RdcNothingLeft

\* A walk that the callback ended with DIR_TERMINATE after it had taken
\* dirents, in a directory that has an eod dirent.
C31_Witness ==
    /\ rdc.pc = "done"
    /\ rdc.cb_result = "DIR_TERMINATE"
    /\ rdc.out # <<>>
    /\ cdir.eod # {}

\* A walk from a known cookie that met the end with nothing handed over.
C31_WitnessEmpty ==
    /\ rdc.pc = "done"
    /\ rdc.eod_met
    /\ rdc.out = <<>>
    /\ rdc.whence # 0
    /\ RdcWhenceKnown

\* A walk that ended at the accepted eod dirent.
C31_WitnessEod ==
    /\ rdc.pc = "done"
    /\ rdc.eod_met
    /\ RdcLastIsEod
    /\ Len(rdc.out) >= 2

(* Claim C32 on the machine of rename, unlink and refresh (SpecMu) *)

\* C32: when new_name in the destination directory resolves in the cache
\* to the object being renamed, mdcache_rename returns success whatever
\* the sub-FSAL would answer and every entry is as it was before the call:
\* dirents, trust flags, MDCACHE_UNREACHABLE and the cached parent handle.
C32_Original ==
    (mu.last.op = "rename" /\ mu.last.dst = MuObj) =>
        /\ mu.last.status = "OK"
        /\ mu.ent = mu.pre

\* The same with the parent handle left aside: everything but the cached
\* parent handle of the renamed object is as it was.
C32_ButParent ==
    (mu.last.op = "rename" /\ mu.last.dst = MuObj) =>
        /\ mu.last.status = "OK"
        /\ [mu.ent EXCEPT ![MuObj].parent = 0]
             = [mu.pre EXCEPT ![MuObj].parent = 0]

\* A rename of a directory onto its own cached dirent in another directory
\* than the one it is renamed from, which was its cached parent.
C32_ParentMoved ==
    /\ mu.last.op = "rename" /\ mu.last.dst = MuObj
    /\ mu.last.d # mu.last.d2
    /\ mu.pre[MuObj].parent = mu.last.d
    /\ mu.ent[MuObj].parent = mu.last.d2

(* ------------------------------------------------------------------ *)
(* Create and the parent's attributes: mdcache_create, mdcache_mkdir,  *)
(* mdcache_mknode, mdcache_symlink, mdcache_alloc_and_check_handle     *)
(* ------------------------------------------------------------------ *)
CrNames == 1..NumCrNames
CrOps == {"create", "mkdir", "mknode", "symlink"}
CrSet(v) == parts' = [parts EXCEPT !.cr = v] /\ UNCHANGED notParts

\* mdcache_create(parent, name): the locals are set up, invalidate = true.
CrCall(op, n) ==
    /\ parts.cr.pc = "idle"
    /\ parts.cr.ncalls < MaxCrCalls
    /\ CrSet([parts.cr EXCEPT !.pc = "sub", !.op = op, !.n = n,
                  !.invalidate = TRUE, !.status = "none",
                  !.placed = "none", !.cleared = FALSE,
                  !.refreshed = FALSE, !.refresh_locked = FALSE,
                  !.refresh_inval = FALSE, !.ncalls = @ + 1])

\* The sub-FSAL's create: on an error the call returns it.
CrSub(st) ==
    /\ parts.cr.pc = "sub"
    /\ CrSet([parts.cr EXCEPT !.pc = IF st = "OK" THEN "lock" ELSE "done",
                              !.status = st])

\* PTHREAD_RWLOCK_wrlock(&parent->content_lock)
CrWrlock ==
    /\ parts.cr.pc = "lock"
    /\ CrSet([parts.cr EXCEPT !.pc = "new_entry", !.wlock = TRUE])

\* mdcache_alloc_and_check_handle up to mdcache_dirent_add:
\* mdcache_new_entry, and with *invalidate set MDCACHE_TRUST_ATTRS of the
\* parent is cleared.
CrNewEntry(st) ==
    /\ parts.cr.pc = "new_entry"
    /\ IF st # "OK"
       THEN CrSet([parts.cr EXCEPT !.pc = "unlock", !.status = st])
       ELSE CrSet([parts.cr EXCEPT
                      !.pc = "add",
                      !.trust_attrs = IF parts.cr.invalidate THEN FALSE
                                      ELSE @,
                      !.cleared = parts.cr.invalidate])

\* *invalidate behind mdcache_dirent_add as the claim has it: reset only
\* for a dirent that went into a chunk.
CrInvalidateAlt(invalidate, avl_chunk, is_new, placed) ==
    IF is_new /\ avl_chunk /\ placed = "chunk" THEN FALSE ELSE invalidate

\* *invalidate behind mdcache_dirent_add: reset to false when the dirent
\* is new in the tree and chunking is configured, whether
\* place_new_dirent found a chunk for it or left it detached.
CrInvalidate(invalidate, avl_chunk, is_new, placed) ==
    IF is_new /\ avl_chunk THEN FALSE ELSE invalidate

\* mdcache_dirent_add(parent, name, new_entry, invalidate): nothing under
\* MDCACHE_BYPASS_DIRCACHE; a name that is in the tree gives ERR_FSAL_EXIST
\* (exist) or the dirent it has (same key); a new dirent is placed by
\* place_new_dirent into a chunk or stays detached.
CrDirentAdd(exist, placed) ==
    /\ parts.cr.pc = "add"
    /\ LET r == parts.cr
           present == r.n \in r.dirents
           is_new == ~r.bypass /\ ~present
           where == IF is_new /\ r.avl_chunk THEN placed ELSE "none"
       IN  IF ~r.bypass /\ present /\ exist
           THEN CrSet([r EXCEPT !.pc = "unlock", !.status = "EXIST"])
           ELSE CrSet([r EXCEPT
                          !.pc = "unlock", !.status = "OK",
                          !.dirents = IF is_new THEN @ \cup {r.n} ELSE @,
                          !.placed = where,
                          !.invalidate = CrInvalidate(@, r.avl_chunk,
                                                      is_new, where)])

\* PTHREAD_RWLOCK_unlock(&parent->content_lock)
CrUnlock ==
    /\ parts.cr.pc = "unlock"
    /\ CrSet([parts.cr EXCEPT
                 !.pc = IF parts.cr.invalidate THEN "done" ELSE "refresh",
                 !.wlock = FALSE])

\* if (!invalidate) mdcache_refresh_attrs_no_invalidate(parent): when the
\* sub-FSAL's getattrs succeeds the attributes are trusted again.
CrRefresh(st) ==
    /\ parts.cr.pc = "refresh"
    /\ CrSet([parts.cr EXCEPT
                 !.pc = "done",
                 !.refreshed = TRUE,
                 !.refresh_locked = parts.cr.wlock,
                 !.refresh_inval = FALSE,
                 !.trust_attrs = IF st = "OK" THEN TRUE ELSE @])

\* The call has returned.
CrReturn ==
    /\ parts.cr.pc = "done"
    /\ CrSet([parts.cr EXCEPT !.pc = "idle"])

\* Between two calls: mdcache_getattrs on the parent refreshes its
\* attributes.
CrGetattrs ==
    /\ parts.cr.pc = "idle"
    /\ ~parts.cr.trust_attrs
    /\ CrSet([parts.cr EXCEPT !.trust_attrs = TRUE])

\* Between two calls: mdcache_unlink takes a name out of the parent.
CrUnlinked(n) ==
    /\ parts.cr.pc = "idle"
    /\ n \in parts.cr.dirents
    /\ CrSet([parts.cr EXCEPT !.dirents = @ \ {n}])

InitCr ==
    /\ InitOthersIdle
    /\ \E avl_chunk \in BOOLEAN, bypass \in BOOLEAN :
          parts = [IdleParts EXCEPT !.cr.avl_chunk = avl_chunk,
                                    !.cr.bypass = bypass]

NextCr ==
    \/ \E op \in CrOps, n \in CrNames : CrCall(op, n)
    \/ \E st \in {"OK", "ACCESS"} : CrSub(st)
    \/ CrWrlock
    \/ \E st \in {"OK", "STALE"} : CrNewEntry(st)
    \/ \E exist \in BOOLEAN, placed \in {"chunk", "detached"} :
            CrDirentAdd(exist, placed)
    \/ CrUnlock
    \/ \E st \in {"OK", "STALE"} : CrRefresh(st)
    \/ CrReturn
    \/ CrGetattrs
    \/ \E n \in CrNames : CrUnlinked(n)

SpecCr == InitCr /\ [][NextCr]_vars

\* The call has returned success from mdcache_alloc_and_check_handle.
CrSucceeded == parts.cr.pc = "done" /\ parts.cr.status = "OK"

C33_ChunkCleared ==
    /\ CrSucceeded
    /\ parts.cr.placed = "chunk"
    /\ parts.cr.cleared

(* ------------------------------------------------------------------ *)
(* The writers of a directory's cached parent handle:                  *)
(* mdc_dir_add_parent and mdcache_free_fh(&entry->fsobj.fsdir.parent)  *)
(* ------------------------------------------------------------------ *)
PwSet(v) == parts' = [parts EXCEPT !.pw = v] /\ UNCHANGED notParts
PwOps == {"create", "readdir", "rename", "unlink", "clean"}

\* The entry whose content lock the operation takes first: the child
\* itself in mdcache_rename's tail and in mdc_clean_entry, the directory
\* of the call in the others.
PwLockOf(op, d) == IF op \in {"rename", "clean"} THEN PwChild ELSE d

PwCall(t, op, d) ==
    /\ parts.pw.th[t].pc = "idle"
    /\ PwSet([parts.pw EXCEPT !.th[t] = [pc |-> "lock", op |-> op,
                                         d |-> d]])

\* PTHREAD_RWLOCK_wrlock(&...->content_lock)
PwWrlock(t) ==
    /\ parts.pw.th[t].pc = "lock"
    /\ LET e == PwLockOf(parts.pw.th[t].op, parts.pw.th[t].d)
       IN  /\ parts.pw.lock[e] = 0
           /\ PwSet([parts.pw EXCEPT
                        !.lock[e] = t,
                        !.th[t].pc = IF parts.pw.th[t].op = "unlink"
                                     THEN "remove" ELSE "write"])

\* mdcache_unlink: mdcache_dirent_remove(parent, name) and the unlock of
\* the parent's content lock, before the parent handle is freed.
PwUnlinkUnlock(t) ==
    /\ parts.pw.th[t].pc = "remove"
    /\ PwSet([parts.pw EXCEPT !.lock[parts.pw.th[t].d] = 0,
                              !.th[t].pc = "write"])

\* mdcache_alloc_and_check_handle (create, mkdir, lookup of a child
\* directory) under the content lock of the parent directory:
\* mdc_dir_add_parent(new_entry, parent) starts.
PwCreateWrite(t) ==
    /\ parts.pw.th[t].pc = "write"
    /\ parts.pw.th[t].op = "create"
    /\ PwSet([parts.pw EXCEPT !.writing = @ \cup {t},
                              !.th[t].pc = "writing"])

\* mdc_readdir_chunk_object and mdc_populate_dirent under the content lock
\* of the directory being read: mdc_dir_add_parent(new_entry, mdc_parent)
\* starts.
PwReaddirWrite(t) ==
    /\ parts.pw.th[t].pc = "write"
    /\ parts.pw.th[t].op = "readdir"
    /\ PwSet([parts.pw EXCEPT !.writing = @ \cup {t},
                              !.th[t].pc = "writing"])

\* mdcache_rename behind mdcache_src_dest_unlock, under the content lock
\* of the renamed directory: mdcache_free_fh and mdc_dir_add_parent start.
PwRenameWrite(t) ==
    /\ parts.pw.th[t].pc = "write"
    /\ parts.pw.th[t].op = "rename"
    /\ PwSet([parts.pw EXCEPT !.writing = @ \cup {t},
                              !.th[t].pc = "writing"])

\* mdcache_unlink behind the unlock of the parent:
\* mdcache_free_fh(&entry->fsobj.fsdir.parent) starts.
PwUnlinkWrite(t) ==
    /\ parts.pw.th[t].pc = "write"
    /\ parts.pw.th[t].op = "unlink"
    /\ PwSet([parts.pw EXCEPT !.writing = @ \cup {t},
                              !.th[t].pc = "writing"])

\* mdc_clean_entry under the content lock of the entry: mdcache_free_fh
\* starts.
PwCleanWrite(t) ==
    /\ parts.pw.th[t].pc = "write"
    /\ parts.pw.th[t].op = "clean"
    /\ PwSet([parts.pw EXCEPT !.writing = @ \cup {t},
                              !.th[t].pc = "writing"])

\* The write is done: the handle names the directory of the call, or is
\* empty after mdcache_free_fh alone.
PwWritten(t) ==
    /\ parts.pw.th[t].pc = "writing"
    /\ LET op == parts.pw.th[t].op
       IN  PwSet([parts.pw EXCEPT
                     !.writing = @ \ {t},
                     !.parent = IF op \in {"unlink", "clean"} THEN 0
                                ELSE parts.pw.th[t].d,
                     !.th[t].pc = IF op = "unlink" THEN "done"
                                  ELSE "unlock"])

\* PTHREAD_RWLOCK_unlock(&...->content_lock)
PwUnlock(t) ==
    /\ parts.pw.th[t].pc = "unlock"
    /\ PwSet([parts.pw EXCEPT
                 !.lock[PwLockOf(parts.pw.th[t].op, parts.pw.th[t].d)] = 0,
                 !.th[t].pc = "done"])

PwReturn(t) ==
    /\ parts.pw.th[t].pc = "done"
    /\ PwSet([parts.pw EXCEPT !.th[t] = IdlePw.th[t]])

InitPw == InitOthersIdle /\ parts = IdleParts

NextPw ==
    \E t \in PwThreads :
        \/ \E op \in PwOps, d \in PwDirs : PwCall(t, op, d)
        \/ PwWrlock(t)
        \/ PwUnlinkUnlock(t)
        \/ PwCreateWrite(t)
        \/ PwReaddirWrite(t)
        \/ PwRenameWrite(t)
        \/ PwUnlinkWrite(t)
        \/ PwCleanWrite(t)
        \/ PwWritten(t)
        \/ PwUnlock(t)
        \/ PwReturn(t)

SpecPw == InitPw /\ [][NextPw]_vars

\* C34: a thread that writes the cached parent handle of a directory
\* entry holds the content lock of that entry for write.
C34_Original ==
    \A t \in parts.pw.writing : parts.pw.lock[PwChild] = t

\* The writers that hold the entry's own lock: mdcache_rename and
\* mdc_clean_entry.
C34_RenameClean ==
    \A t \in parts.pw.writing :
        parts.pw.th[t].op \in {"rename", "clean"} =>
            parts.pw.lock[PwChild] = t

\* Two threads write the parent handle of the same entry at once.
C34_Race == Cardinality(parts.pw.writing) = 2

(* Claim C35 on the population machine (SpecWn) *)

GtSet(v) == parts' = [parts EXCEPT !.gt = v] /\ UNCHANGED notParts

\* mdcache_is_attrs_valid(entry, attrs_out->request_mask)
GtValid(e, need_acl) == e.trust_attrs /\ (need_acl => e.trust_acl)

GtCall(need_acl, req_err) ==
    /\ parts.gt.pc = "idle"
    /\ ~parts.gt.killed
    /\ parts.gt.ncalls < MaxGtCalls
    /\ GtSet([parts.gt EXCEPT !.pc = "rdlock", !.need_acl = need_acl,
                  !.req_err = req_err, !.pre = parts.gt.e,
                  !.out = GtNoOut, !.status = "OK",
                  !.kill_locked = FALSE, !.ncalls = @ + 1])

\* PTHREAD_RWLOCK_rdlock(&entry->attr_lock) and the first
\* mdcache_is_attrs_valid.
GtRdlock ==
    /\ parts.gt.pc = "rdlock"
    /\ GtSet([parts.gt EXCEPT
                 !.lock = "rd",
                 !.pc = IF GtValid(parts.gt.e, parts.gt.need_acl)
                        THEN "copy" ELSE "promote"])

\* Promote to write lock: the unlock.
GtPromote ==
    /\ parts.gt.pc = "promote"
    /\ GtSet([parts.gt EXCEPT !.lock = "none", !.pc = "wrlock"])

\* While the lock is free another thread refreshes the entry.
GtBeaten(ver) ==
    /\ parts.gt.pc = "wrlock"
    /\ ~GtValid(parts.gt.e, parts.gt.need_acl)
    /\ GtSet([parts.gt EXCEPT
                 !.e = [@ EXCEPT !.ver = ver, !.trust_attrs = TRUE,
                                 !.trust_acl = @ \/ parts.gt.need_acl,
                                 !.request_acl = @ \/ parts.gt.need_acl,
                                 !.acl = IF parts.gt.need_acl THEN ver
                                         ELSE @],
                 !.pre = [@ EXCEPT !.ver = ver, !.trust_attrs = TRUE,
                                   !.trust_acl = @ \/ parts.gt.need_acl,
                                   !.request_acl = @ \/ parts.gt.need_acl,
                                   !.acl = IF parts.gt.need_acl THEN ver
                                           ELSE @]])

\* PTHREAD_RWLOCK_wrlock(&entry->attr_lock) and the second
\* mdcache_is_attrs_valid.
GtWrlock ==
    /\ parts.gt.pc = "wrlock"
    /\ GtSet([parts.gt EXCEPT
                 !.lock = "wr",
                 !.pc = IF GtValid(parts.gt.e, parts.gt.need_acl)
                        THEN "copy" ELSE "refresh"])

\* mdcache_refresh_attrs before the sub-FSAL's getattrs:
\* entry->attrs.request_mask = attrs.request_mask, which has ATTR_ACL
\* with need_acl only.
GtRequest(e, need_acl) == [e EXCEPT !.request_acl = need_acl]

GtRefresh ==
    /\ parts.gt.pc = "refresh"
    /\ GtSet([parts.gt EXCEPT
                 !.e = GtRequest(@, parts.gt.need_acl), !.pc = "sub"])

\* The sub-FSAL's getattrs and the rest of mdcache_refresh_attrs: on an
\* error the function returns; else an ACL that was not requested is
\* kept and ATTR_ACL goes back into the request mask, the new attributes
\* are moved into the entry (fsal_copy_attrs keeps the request mask of
\* the destination) and mdc_fixup_md trusts what was fetched.
GtSub(st, ver) ==
    /\ parts.gt.pc = "sub"
    /\ LET e == parts.gt.e
           need_acl == parts.gt.need_acl
           keep == e.acl # 0 /\ ~need_acl
       IN  IF st # "OK"
           THEN GtSet([parts.gt EXCEPT !.status = st, !.pc = "failed"])
           ELSE GtSet([parts.gt EXCEPT
                          !.e = [ver |-> ver,
                                 request_acl |-> e.request_acl \/ keep,
                                 acl |-> IF need_acl THEN ver ELSE e.acl,
                                 trust_attrs |-> TRUE,
                                 trust_acl |-> need_acl \/ e.trust_acl],
                          !.pc = "copy"])

\* mdcache_getattrs on the error of mdcache_refresh_attrs: the caller is
\* told with ATTR_RDATTR_ERR when it asked for that.
GtFailed ==
    /\ parts.gt.pc = "failed"
    /\ GtSet([parts.gt EXCEPT !.out.rdattr_err = parts.gt.req_err,
                              !.pc = "unlock"])

\* unlock: fsal_copy_attrs(attrs_out, &entry->attrs, false)
GtCopy ==
    /\ parts.gt.pc = "copy"
    /\ GtSet([parts.gt EXCEPT !.out.copied = TRUE,
                              !.out.ver = parts.gt.e.ver,
                              !.pc = "unlock"])

\* unlock_no_attrs: PTHREAD_RWLOCK_unlock(&entry->attr_lock)
GtUnlock ==
    /\ parts.gt.pc = "unlock"
    /\ GtSet([parts.gt EXCEPT
                 !.lock = "none",
                 !.pc = IF parts.gt.status = "STALE" THEN "kill"
                        ELSE "done"])

\* mdcache_kill_entry(entry) on ERR_FSAL_STALE
GtKill ==
    /\ parts.gt.pc = "kill"
    /\ GtSet([parts.gt EXCEPT !.killed = TRUE,
                              !.kill_locked = parts.gt.lock # "none",
                              !.pc = "done"])

GtReturn ==
    /\ parts.gt.pc = "done"
    /\ GtSet([parts.gt EXCEPT !.pc = "idle"])

\* Between two calls the attributes stop being trusted: they expire, or a
\* create, unlink or rename clears MDCACHE_TRUST_ATTRS.
GtInvalidate ==
    /\ parts.gt.pc = "idle"
    /\ parts.gt.e.trust_attrs
    /\ GtSet([parts.gt EXCEPT !.e.trust_attrs = FALSE])

InitGt == InitOthersIdle /\ parts = IdleParts

NextGt ==
    \/ \E need_acl \in BOOLEAN, req_err \in BOOLEAN :
            GtCall(need_acl, req_err)
    \/ GtRdlock
    \/ GtPromote
    \/ \E ver \in 1..MaxGtVer : GtBeaten(ver)
    \/ GtWrlock
    \/ GtRefresh
    \/ \E st \in {"OK", "STALE", "IO"}, ver \in 1..MaxGtVer : GtSub(st, ver)
    \/ GtFailed
    \/ GtCopy
    \/ GtUnlock
    \/ GtKill
    \/ GtReturn
    \/ GtInvalidate

SpecGt == InitGt /\ [][NextGt]_vars

\* The call is about to return the error of the sub-FSAL's getattrs.
GtErrorReturn == parts.gt.pc = "done" /\ parts.gt.status # "OK"

\* C36: when the sub-FSAL's getattrs fails in mdcache_getattrs, the
\* entry's attribute structure (values, request mask, ACL reference) and
\* the validity of its attributes are what they were before the call,
\* nothing is copied to the caller, and on ERR_FSAL_STALE the entry is
\* killed with the attribute lock released.
C36_Original ==
    GtErrorReturn =>
        /\ parts.gt.e = parts.gt.pre
        /\ ~parts.gt.out.copied
        /\ parts.gt.lock = "none"
        /\ parts.gt.status = "STALE" =>
              parts.gt.killed /\ ~parts.gt.kill_locked

\* The same without the request mask: values, ACL reference and validity
\* are kept.
C36_ButRequestMask ==
    GtErrorReturn =>
        /\ [parts.gt.e EXCEPT !.request_acl = FALSE]
              = [parts.gt.pre EXCEPT !.request_acl = FALSE]
        /\ ~parts.gt.out.copied
        /\ parts.gt.lock = "none"
        /\ parts.gt.status = "STALE" =>
              parts.gt.killed /\ ~parts.gt.kill_locked

\* A failed refresh that was not to fetch the ACL, on an entry that
\* keeps an ACL: the request mask has lost ATTR_ACL.
C36_MaskChanged ==
    /\ GtErrorReturn
    /\ parts.gt.e.acl # 0
    /\ parts.gt.pre.request_acl
    /\ ~parts.gt.e.request_acl

(* Claim C37 on the cache machine (Spec) *)

\* mdcache_new_entry of thread t has returned an error.
NeFailed(t) == th[t].op = "ne" /\ th[t].pc = "done"

\* C37: mdcache_new_entry returns an entry with a reference of the
\* caller on success; on an error return *entry is NULL, no entry the
\* call allocated is in the hash table, and the call holds no latch.
C37_Original ==
    \A t \in Threads :
        /\ (th[t].op = "ne" /\ th[t].pc = "hold") =>
              /\ th[t].entry # 0
              /\ mde[th[t].entry].refcnt >= 1
        /\ NeFailed(t) =>
              /\ th[t].entry = 0
              /\ th[t].nentry # 0 => th[t].nentry \notin cih
              /\ \A k \in Keys :
                    ~HoldsWr(latch[k], t) /\ ~HoldsRd(latch[k], t)

\* What holds of an error return: no entry the call allocated is in the
\* hash table, the call holds no latch, and *entry is not NULL only after
\* a lost race whose winner could not be referenced.
C37_NoLeak ==
    \A t \in Threads :
        NeFailed(t) =>
            /\ th[t].entry # 0 => th[t].g_lost
            /\ th[t].nentry # 0 => th[t].nentry \notin cih
            /\ \A k \in Keys :
                  ~HoldsWr(latch[k], t) /\ ~HoldsRd(latch[k], t)

\* An error return after a lost race: *entry names the winner, on which
\* the call took no reference.
C37_Dangling ==
    \E t \in Threads :
        /\ NeFailed(t)
        /\ th[t].g_lost
        /\ th[t].entry # 0
        /\ th[t].status = "STALE"

(* ------------------------------------------------------------------ *)
(* C38: what a successful mdc_check_mapping guarantees                 *)
(* ------------------------------------------------------------------ *)

MpSucceeded(t) == parts.mp.th[t].pc = "idle" /\ parts.mp.th[t].status = "OK"

\* C38 as stated: whenever mdc_check_mapping returns success for the
\* export X a mapping record of X is on the entry's export list at the
\* moment of return, the lock-free fast path included; first_export_id is
\* never X's id while the entry has no record for X, and it is -1 whenever
\* the export list is empty.
C38_Original ==
    LET m == parts.mp IN
        /\ \A t \in MpThreads : MpSucceeded(t) => m.th[t].mapped
        /\ \A x \in MpExports : m.first_export_id = x => MpOnList(m, x)
        /\ m.export_list = <<>> => m.first_export_id = -1

\* C38, what the code keeps: a success of the locked path has the record
\* on the list at the moment of return, and while no thread holds the
\* entry's attr_lock for write first_export_id names an export that has a
\* record on the list, and it is -1 when the list is empty.
C38_LockedPath ==
    LET m == parts.mp IN
        /\ \A t \in MpThreads :
               MpSucceeded(t) /\ ~m.th[t].fast => m.th[t].mapped
        /\ m.attr.writer = 0 =>
               /\ \A x \in MpExports : m.first_export_id = x => MpOnList(m, x)
               /\ m.export_list = <<>> => m.first_export_id = -1

\* The fast path returned success while mdc_clean_entry had removed the
\* record and not yet cleared first_export_id.
C38_FastDuringClean ==
    LET m == parts.mp IN
        \E t, u \in MpThreads :
            /\ MpSucceeded(t) /\ m.th[t].fast /\ ~m.th[t].mapped
            /\ m.th[u].pc = "c_loop"
            /\ m.export_list = <<>>
            /\ m.first_export_id = m.th[t].exp

\* The fast path returned success while another mdc_check_mapping had
\* stored first_export_id and not yet linked its record.
C38_FastDuringAdd ==
    LET m == parts.mp IN
        \E t, u \in MpThreads :
            /\ MpSucceeded(t) /\ m.th[t].fast /\ ~m.th[t].mapped
            /\ m.th[u].pc = "add_entry"
            /\ m.th[u].exp = m.th[t].exp

\* A locked-path success with the record on the list.
C38_Witness ==
    LET m == parts.mp IN
        \E t \in MpThreads :
            MpSucceeded(t) /\ ~m.th[t].fast /\ m.th[t].mapped /\ m.th[t].added

(* ------------------------------------------------------------------ *)
(* C39: lock balance of the operations                                 *)
(* ------------------------------------------------------------------ *)

\* The thread holds the entry's content_lock or attr_lock.
OHolds(t, e) ==
    \/ HoldsWr(content_lock[e], t) \/ HoldsRd(content_lock[e], t)
    \/ HoldsWr(attr_lock[e], t) \/ HoldsRd(attr_lock[e], t)

\* C39: when lookup, readdir (chunked or not), create, link, rename,
\* unlink or getattrs has returned, on success and on every error path,
\* the calling thread holds none of the attribute locks or content locks
\* it acquired during the call, and no lock was released that the thread
\* did not hold: each acquired lock has been released exactly once.
C39_LockBalance ==
    \A t \in Threads :
        /\ ot[t].pc = "idle" =>
               /\ held[t] = <<>>
               /\ \A e \in Entries : ~OHolds(t, e)
        /\ \A i \in 1..Len(held[t]) :
               /\ held[t][i][1] # "unheld"
               /\ \A j \in 1..Len(held[t]) : held[t][i] = held[t][j] => i = j

\* An operation that upgraded its read lock on the directory to the write
\* lock has returned, in a run of MaxOps operations, and its thread holds
\* no lock, while the other operation took locks of its own.
C39_Witness ==
    \E t \in Threads :
        /\ ot[t].pc = "idle"
        /\ ot[t].has_write
        /\ held[t] = <<>>
        /\ nops = MaxOps
        /\ \A e \in Entries : ~OHolds(t, e)
        /\ \E u \in Threads \ {t} : Len(held[u]) = 2

(* ------------------------------------------------------------------ *)
(* The lookup machine (SpecLu): mdc_lookup of one name by several      *)
(* threads, statement by statement                                     *)
(* ------------------------------------------------------------------ *)

LuSet(v) == parts' = [parts EXCEPT !.lu = v] /\ UNCHANGED notParts

\* mdc_try_get_cached on a directory that is trusted and not bypassed:
\* the dirent found and its entry found by key is a hit; a dirent whose
\* entry is not in the hash table, or no dirent in a directory that is not
\* fully populated, is ERR_FSAL_STALE; no dirent in a populated directory
\* is ERR_FSAL_NOENT.
LuCachedAlt(l) == "STALE"
LuCached(l) ==
    IF l.dirent THEN (IF l.hashed # 0 THEN "OK" ELSE "STALE")
    ELSE IF l.populated THEN "NOENT"
    ELSE "STALE"

\* PTHREAD_RWLOCK_unlock(&mdc_parent->content_lock)
LuUnlock(l, t) ==
    [l EXCEPT !.lock.readers = @ \ {t},
              !.lock.writer = IF @ = t THEN 0 ELSE @]

\* mdc_lookup is called.
LuCall(t) ==
    LET l == parts.lu IN
        /\ l.th[t].pc = "idle"
        /\ LuSet([l EXCEPT !.th[t].pc = "rdlock"])

\* PTHREAD_RWLOCK_rdlock(&mdc_parent->content_lock)
LuRdlock(t) ==
    LET l == parts.lu IN
        /\ l.th[t].pc = "rdlock"
        /\ l.lock.writer = 0
        /\ LuSet([l EXCEPT !.lock.readers = @ \cup {t},
                           !.th[t].pc = "try"])

\* mdc_try_get_cached, under the read lock and again under the write
\* lock. A hit has a reference on the entry; ERR_FSAL_STALE under the read
\* lock drops it for the upgrade; under the write lock it goes on to
\* mdc_lookup_uncached; any other error goes to out.
LuTry(t) ==
    LET l == parts.lu
        st == LuCached(l)
    IN  /\ l.th[t].pc = "try"
        /\ LuSet(CASE st = "OK" ->
                        [l EXCEPT !.th[t].entry = l.hashed,
                                  !.refs[l.hashed] = @ \cup {t},
                                  !.th[t].status = "OK",
                                  !.th[t].pc = "found"]
                   [] st = "NOENT" ->
                        [l EXCEPT !.th[t].status = "NOENT",
                                  !.th[t].pc = "out"]
                   [] st = "STALE" /\ ~l.th[t].has_write ->
                        [LuUnlock(l, t) EXCEPT !.th[t].pc = "wrlock"]
                   [] OTHER ->
                        [l EXCEPT !.th[t].status = "STALE",
                                  !.th[t].pc = "uncached"])

\* PTHREAD_RWLOCK_wrlock(&mdc_parent->content_lock) of the upgrade.
LuWrlock(t) ==
    LET l == parts.lu IN
        /\ l.th[t].pc = "wrlock"
        /\ l.lock.writer = 0
        /\ l.lock.readers = {}
        /\ LuSet([l EXCEPT !.lock.writer = t,
                           !.th[t].has_write = TRUE,
                           !.th[t].pc = "try"])

\* Success: the lock is dropped, get_optional_attrs is called; when it
\* fails the reference is put and no entry is returned.
LuFound(t, attrs_ok) ==
    LET l == parts.lu
        e == l.th[t].entry
        u == LuUnlock(l, t)
    IN  /\ l.th[t].pc = "found"
        /\ LuSet(IF attrs_ok THEN [u EXCEPT !.th[t].pc = "done"]
                 ELSE [u EXCEPT !.refs[e] = @ \ {t},
                                !.th[t].entry = 0,
                                !.th[t].status = "ERROR",
                                !.th[t].pc = "done"])

\* mdc_lookup_uncached: the sub-FSAL's lookup, then
\* mdcache_alloc_and_check_handle: mdcache_new_entry hands back the entry
\* of the key, new or already in the hash table, with a reference, and
\* mdcache_dirent_add puts the dirent into the by-name index.
LuUncached(t, new_ok) ==
    LET l == parts.lu
        e == IF l.hashed # 0 THEN l.hashed ELSE l.nentries + 1
        asked == [l EXCEPT !.th[t].sub = TRUE, !.th[t].pc = "out"]
    IN  /\ l.th[t].pc = "uncached"
        /\ l.on_fs /\ new_ok => e \in LuEntries
        /\ LuSet(IF ~l.on_fs THEN [asked EXCEPT !.th[t].status = "NOENT"]
                 ELSE IF ~new_ok
                 THEN [asked EXCEPT !.th[t].status = "ERROR",
                                    !.failed = TRUE]
                 ELSE [asked EXCEPT !.hashed = e,
                                    !.nentries = IF l.hashed # 0 THEN @
                                                 ELSE @ + 1,
                                    !.refs[e] = @ \cup {t},
                                    !.dirent = TRUE,
                                    !.th[t].entry = e,
                                    !.th[t].status = "OK"])

\* out: the unlock; ERR_FSAL_STALE becomes ERR_FSAL_NOENT.
LuOut(t) ==
    LET l == parts.lu IN
        /\ l.th[t].pc = "out"
        /\ LuSet([LuUnlock(l, t) EXCEPT
                     !.th[t].status = IF @ = "STALE" THEN "NOENT" ELSE @,
                     !.th[t].pc = "done"])

\* The caller is done with the entry: mdcache_put of its reference.
LuPut(t) ==
    LET l == parts.lu
        e == l.th[t].entry
    IN  /\ l.th[t].pc = "done"
        /\ LuSet(IF e = 0 THEN [l EXCEPT !.th[t].pc = "over"]
                 ELSE [l EXCEPT !.refs[e] = @ \ {t},
                                !.th[t].pc = "over"])

\* The LRU reaps the entry, which nobody references: it leaves the hash
\* table; the dirent of its name stays in the directory.
LuReap ==
    LET l == parts.lu IN
        /\ l.hashed # 0
        /\ l.refs[l.hashed] = {}
        /\ LuSet([l EXCEPT !.hashed = 0, !.reaped = TRUE])

InitLu ==
    /\ InitOthersIdle
    /\ \E f \in BOOLEAN, p \in BOOLEAN :
        parts = [IdleParts EXCEPT !.lu.on_fs = f, !.lu.populated = p]

NextLu ==
    \/ \E t \in LuThreads : LuCall(t)
    \/ \E t \in LuThreads : LuRdlock(t)
    \/ \E t \in LuThreads : LuTry(t)
    \/ \E t \in LuThreads : LuWrlock(t)
    \/ \E t \in LuThreads, attrs_ok \in BOOLEAN : LuFound(t, attrs_ok)
    \/ \E t \in LuThreads, new_ok \in BOOLEAN : LuUncached(t, new_ok)
    \/ \E t \in LuThreads : LuOut(t)
    \/ \E t \in LuThreads : LuPut(t)
    \/ LuReap

SpecLu == InitLu /\ [][NextLu]_vars

LuReturned(t) == parts.lu.th[t].pc \in {"done", "over"}
LuAsked == {t \in LuThreads : parts.lu.th[t].sub}

C40_EachAsked ==
    LET l == parts.lu IN
        /\ ~l.on_fs /\ ~l.populated
        /\ \A t \in LuThreads : LuReturned(t) /\ l.th[t].sub

\* The entry was reaped between two of the lookups: the second thread
\* found the dirent, missed the entry, asked the sub-FSAL and came back
\* with another entry than the first.
C40_Reaped ==
    LET l == parts.lu IN
        \E t, u \in LuThreads :
            /\ LuReturned(t) /\ LuReturned(u)
            /\ l.th[t].sub /\ l.th[u].sub
            /\ l.th[t].entry # 0 /\ l.th[u].entry # 0
            /\ l.th[t].entry # l.th[u].entry

====
